---------------------------- MODULE Spec2Model ----------------------------
(***************************************************************************)
(* State-machine model of the SUSHI audio host core.                       *)
(*                                                                         *)
(*   Part 1  LV2 wrapper and worker: Lv2Wrapper::process_audio and         *)
(*           process_event (src/library/lv2/lv2_wrapper.cpp) on the audio  *)
(*           thread, the worker (src/library/lv2/lv2_worker.cpp) with its  *)
(*           worker thread, and a control thread that shuts it down.       *)
(*   Part 2  MIDI dispatcher (src/engine/midi_dispatcher.cpp).             *)
(***************************************************************************)
EXTENDS Integers, Sequences, FiniteSets, TLC

(***************************************************************************)
(* Bounds of the model.                                                    *)
(***************************************************************************)
\* Size given to zix_ring_new, scaled down from 4096 so that overflow is reached.
RingSize == 8
\* schedule_work calls the plugin makes over a run of the model.
MaxSched == 2
\* schedule_work calls over a run of the shutdown specification.
MaxShutdownSched == 1
\* process_audio calls over a run of the model.
MaxBlocks == 2
\* Iterations of the emit_responses loop followed once read_space has wrapped.
MaxEmitIters == 1
\* Bytes of a buffer (worker->response, worker_func's buf) the model keeps.
BufLen == 2
\* Keyboard events passed to process_event over a run of the model.
MaxEvents == 3
\* Events the wrapper's incoming event queue holds; a push to a full queue fails.
MaxQueue == 2

(***************************************************************************)
(* Program constants.                                                      *)
(***************************************************************************)
\* sizeof(uint32_t): the size header written before every record.
HeaderSize == 4

\* The two workers of a Model; emit_responses runs for both, in this order.
Workers == <<"state_worker", "worker">>
WorkerIds == {Workers[i] : i \in 1..Len(Workers)}

\* Payloads the plugin passes to schedule_work.
Payloads == {<<7>>, <<8, 9>>}
\* Values the bytes of an uninitialised buffer may hold.
GarbageBytes == {0, 7}

\* A sample buffer, cut down to one channel of one sample; Silence is all zero.
Silence == <<0>>
Samples == {<<0>>, <<1>>}
\* The types of the events passed to process_event: a parameter change, a keyboard
\* event, and one the wrapper does not handle.
EventTypes == {"FLOAT_PARAMETER_CHANGE", "NOTE_ON", "SET_BYPASS"}
\* Values of a parameter change.
ParamValues == {0, 1}
\* The sample offsets of the events passed to process_event.
SampleOffsets == {0, 1}

VARIABLES
    \* ---- Lv2_Worker fields, per worker
    threaded,      \* worker->threaded
    requests,      \* worker->requests: the bytes in the ring, oldest first
    responses,     \* worker->responses
    response,      \* worker->response: the buffer emit_responses reads into
    sem,           \* worker->sem
    \* ---- Model fields
    work_lock,     \* model->work_lock (a binary semaphore, 1 = free)
    lock_holder,   \* the thread that waited work_lock down and has not posted it
    exit,          \* model->exit
    \* ---- worker_func, the thread of a threaded worker
    wpc,           \* where the thread is
    wsize,         \* its local size
    wbuf,          \* its local buf
    \* ---- the audio thread: process_audio and the plugin's run inside it
    apc,           \* where the thread is
    aw,            \* the worker of the schedule_work or emit_responses call it is in
    adata,         \* the data of the schedule_work call it is in
    read_space,    \* emit_responses' local read_space
    esize,         \* emit_responses' local size
    emit_iters,    \* iterations of emit_responses' loop made with read_space wrapped
    blocks,        \* process_audio calls started
    nsched,        \* schedule_work calls made
    \* ---- the control thread
    fin,           \* per worker, how far lv2_worker_finish has come
    \* ---- history of the calls between host and plugin, per worker
    schedLog,      \* data of the schedule_work calls
    workLog,       \* (size, data) of the work calls
    respLog,       \* (size, data) of the respond calls
    delivLog,      \* (size, data) of the work_response calls
    respBlock,     \* per respond call, the process_audio calls ended when work returned
    overflowed,    \* whether a zix_ring_write has failed for lack of room
    \* ---- Lv2Wrapper and its Model
    bypassed,              \* Processor::_bypassed
    play_state,            \* model->play_state
    paused,                \* model->paused, the semaphore's count
    incoming_event_queue,  \* _incoming_event_queue: the events, oldest first
    port_control,          \* port->control of the plugin's control port
    out_buffer,            \* what process_audio's out_buffer holds
    last_in,               \* the in_buffer of the last process_audio call
    plugin_events,         \* what was written to the plugin's event buffer, in order
    nevents,               \* keyboard events passed to process_event
    accepted_events,       \* ids of the events whose push to the queue succeeded
    flushed_events,        \* ids of the events thrown away by _flush_event_queue
    end_run,               \* whether model->worker.iface has an end_run
    plugin_calls,          \* the calls process_audio has made into the plugin, this block
    \* ---- the thread that pauses the plugin to restore a state
    restoring              \* where the thread is

lv2Vars == <<threaded, requests, responses, response, sem, work_lock, lock_holder,
                exit, wpc, wsize, wbuf, apc, aw, adata,
                read_space, esize, emit_iters, blocks, nsched, fin, schedLog,
                workLog, respLog, delivLog, respBlock, overflowed, bypassed, play_state,
                paused, incoming_event_queue, port_control, out_buffer, last_in, plugin_events, nevents,
                accepted_events, flushed_events, end_run, plugin_calls, restoring>>

VARIABLES
    \* ---- MidiDispatcher
    cc_routes,      \* _cc_routes: per input with an entry, per controller and channel slot
    kb_routes_in,   \* _kb_routes_in: per input with an entry, per channel slot
    posted,         \* the post_event calls of the dispatcher's last operation, in order
    last_frame,     \* <<input, data>> of that operation if it was process_midi, else <<>>
    midi_status,    \* what that operation returned, if it was a connect call
    nconns,         \* connections made
    kb_routes_out,  \* _kb_routes_out: per processor id with an entry, its connections
    sent,           \* the send_midi calls of the dispatcher's last operation, in order
    last_event      \* the event of that operation if it was process, else <<>>

outVars == <<kb_routes_out, sent, last_event>>

midiVars == <<cc_routes, kb_routes_in, posted, last_frame, midi_status, nconns, outVars>>

VARIABLES
    \* ---- Vst2xWrapper
    wrapper_kind,          \* which wrapper the processor under observation is
    can_do_soft_bypass,    \* _can_do_soft_bypass, set by init from effCanDo("bypass")
    vst_bypassed,          \* _bypass_manager: the bypass that was last asked for
    ramp_count,            \* _bypass_manager: the chunks left of the ramp to it
    vst_midi_events_fifo,  \* _vst_midi_events_fifo
    host_control,          \* the SetProcessorBypassEvents posted and not yet handed over
    vpc,                   \* where the audio thread is: "idle" or in a "block"
    vst_in,                \* the in_buffer of the last process_audio call
    vst_out,               \* what its out_buffer holds
    vst_calls,             \* the calls made by the wrapper's last operation, in order
    vst_accepted,          \* the keyboard events pushed since the last block returned
    vst_delivered,         \* the keyboard events handed to the plugin so far
    vst_nevents            \* keyboard events passed to process_event

vstVars == <<wrapper_kind, can_do_soft_bypass, vst_bypassed, ramp_count,
             vst_midi_events_fifo, host_control, vpc, vst_in, vst_out, vst_calls,
             vst_accepted, vst_delivered, vst_nevents>>

VARIABLES
    \* ---- the loading of a plugin, and the wrapper's channels
    plugin_file,              \* what is found at _plugin_path
    library_handle,           \* _library_handle: "null", "open", or "closed"
    plugin_handle,            \* _plugin_handle: "null" or "loaded"
    plugin_user,              \* the plugin's user field: "null" or "wrapper"
    init_return,              \* what init returned, "none" before it is called
    load_calls,               \* the calls init has made, in order
    max_input_channels,       \* _max_input_channels
    max_output_channels,      \* _max_output_channels
    current_input_channels,   \* _current_input_channels
    current_output_channels,  \* _current_output_channels
    double_mono_input,        \* _double_mono_input
    speaker_arr_status,       \* the plugin's answer to the last speaker arrangement
    process_inputs,           \* _process_inputs, per slot what it points to
    process_outputs,          \* _process_outputs
    mapped                    \* whether a block was processed since the channels were set

loadVars == <<plugin_file, library_handle, plugin_handle, plugin_user, init_return,
              load_calls, max_input_channels, max_output_channels,
              current_input_channels, current_output_channels, double_mono_input,
              speaker_arr_status, process_inputs, process_outputs, mapped>>

VARIABLES
    \* ---- the engine's transport and the wrapper's VstTimeInfo
    transport_playing,       \* Transport::playing()
    playing_request,         \* the play state asked for, taken at the next block
    transport_state_change,  \* Transport::current_state_change()
    transport_samples,       \* Transport::current_samples(), in blocks
    time_info                \* _time_info: samplePos and flags

timeVars == <<transport_playing, playing_request, transport_state_change,
              transport_samples, time_info>>

VARIABLES
    \* ---- the engine and the JSON configurator
    engine,            \* the engine's tracks, their plugins, and the audio connections
    last_call,         \* the last _make_track or load_tracks call and what it returned
    midi_config,       \* the midi section of the configuration file
    load_midi_return,  \* what load_midi returned, "none" while it has not
    pc_routes,         \* the dispatcher's program change routes
    raw_routes_in,     \* the dispatcher's raw MIDI routes
    sample_rate,       \* the engine's sample rate
    host_config        \* the last load_host_config call: its file and what it returned

confVars == <<engine, last_call, midi_config, load_midi_return, pc_routes, raw_routes_in,
              sample_rate, host_config>>

VARIABLES
    \* ---- the parameters of a wrapper and the events it puts out
    param_plugin,      \* the plugin the wrapper holds: numParams, or the ports of the model
    param_return,      \* the last parameter_value call, what it returned and what it read
    notified           \* the events handed to output_event, oldest first

paramVars == <<param_plugin, param_return, notified>>

moreVars == <<loadVars, timeVars, confVars, paramVars>>

otherThanLoad == <<lv2Vars, midiVars, vstVars, timeVars, confVars, paramVars>>

otherThanTime == <<lv2Vars, midiVars, vstVars, loadVars, confVars, paramVars>>

otherThanConf == <<lv2Vars, midiVars, vstVars, loadVars, timeVars, paramVars>>

otherThanParam == <<lv2Vars, midiVars, vstVars, loadVars, timeVars, confVars>>

vars == <<lv2Vars, midiVars, vstVars, moreVars>>

(***************************************************************************)
(* zix ring (zix/ring.h): a byte FIFO with one reader and one writer. A    *)
(* write of more than the free space and a read of more than the stored    *)
(* bytes do nothing and return 0; a ring of size n stores n - 1 bytes.     *)
(***************************************************************************)
zix_ring_write_space(ring) == RingSize - 1 - Len(ring)

zix_ring_read_space(ring) == Len(ring)

zix_ring_write(ring, bytes) ==
    IF zix_ring_write_space(ring) < Len(bytes) THEN ring ELSE ring \o bytes

\* Whether zix_ring_write(ring, bytes) fails.
zix_ring_write_fails(ring, bytes) == zix_ring_write_space(ring) < Len(bytes)

\* Whether zix_ring_read(ring, dst, n) reads (returns n) or does nothing (returns 0).
zix_ring_can_read(ring, n) == zix_ring_read_space(ring) >= n

\* The ring after zix_ring_read(ring, dst, n), and the bytes dst receives.
zix_ring_read(ring, n) ==
    IF zix_ring_can_read(ring, n) THEN SubSeq(ring, n + 1, Len(ring)) ELSE ring

zix_ring_peek(ring, n) == SubSeq(ring, 1, n)

\* A uint32_t as its four bytes in memory order (little endian), and back.
EncodeSize(n) ==
    <<n % 256, (n \div 256) % 256, (n \div 65536) % 256, (n \div 16777216) % 256>>

DecodeSize(b) == b[1] + 256 * b[2] + 65536 * b[3] + 16777216 * b[4]

\* buf after its first Len(bytes) bytes were overwritten by bytes.
BufStore(buf, bytes) ==
    IF Len(bytes) >= Len(buf) THEN bytes
    ELSE bytes \o SubSeq(buf, Len(bytes) + 1, Len(buf))

\* The first n bytes at buf. The model keeps BufLen bytes of a buffer; the bytes
\* after them are taken to repeat its last byte (n is cut at the ring's size: no
\* ring operation succeeds with more).
BufBytes(buf, n) ==
    [i \in 1..(IF n < RingSize THEN n ELSE RingSize) |->
        IF i <= Len(buf) THEN buf[i] ELSE buf[Len(buf)]]

\* Buffers as malloc and realloc hand them out.
GarbageBufs == {[i \in 1..BufLen |-> b] : b \in GarbageBytes}

Append1(f, w, x) == [f EXCEPT ![w] = Append(@, x)]

\* A call of work, respond or work_response: its size and the bytes at its data.
Call(size, buf) == [size |-> size, data |-> BufBytes(buf, size)]

\* process_audio calls that have returned.
BlocksDone == IF apc = "idle" THEN blocks ELSE blocks - 1

(***************************************************************************)
(* Init: lv2_worker_init has run for both workers. The model owns one      *)
(* optional worker thread: that of worker; state_worker is not threaded.   *)
(***************************************************************************)
WorkerInit ==
    /\ threaded \in {t \in [WorkerIds -> BOOLEAN] : ~t["state_worker"]}
    /\ requests = [w \in WorkerIds |-> <<>>]
    /\ responses = [w \in WorkerIds |-> <<>>]
    /\ \E b \in GarbageBufs :
        /\ response = [w \in WorkerIds |-> b]
        /\ wbuf = [w \in WorkerIds |-> b]
    /\ sem = [w \in WorkerIds |-> 0]
    /\ work_lock = 1
    /\ lock_holder = "none"
    /\ exit = FALSE
    /\ wpc = [w \in WorkerIds |-> IF threaded[w] THEN "sem_wait" ELSE "none"]
    /\ wsize = [w \in WorkerIds |-> 0]
    /\ apc = "idle"
    /\ aw = Workers[1]
    /\ adata = <<>>
    /\ read_space = 0
    /\ esize = 0
    /\ emit_iters = 0
    /\ blocks = 0
    /\ nsched = 0
    /\ fin = [w \in WorkerIds |-> "no"]
    /\ schedLog = [w \in WorkerIds |-> <<>>]
    /\ workLog = [w \in WorkerIds |-> <<>>]
    /\ respLog = [w \in WorkerIds |-> <<>>]
    /\ delivLog = [w \in WorkerIds |-> <<>>]
    /\ respBlock = [w \in WorkerIds |-> <<>>]
    /\ overflowed = FALSE

\* Lv2Wrapper::init has returned: the plugin is activated and running.
WrapperInit ==
    /\ bypassed = FALSE
    /\ play_state = "LV2_RUNNING"
    /\ paused = 0
    /\ incoming_event_queue = <<>>
    /\ port_control = 0
    /\ out_buffer = Silence
    /\ last_in = Silence
    /\ plugin_events = <<>>
    /\ nevents = 0
    /\ accepted_events = {}
    /\ flushed_events = {}
    /\ plugin_calls = <<>>
    /\ restoring = "idle"

\* The plugin has a worker interface with an end_run.
Lv2Init == WorkerInit /\ WrapperInit /\ end_run = TRUE

(***************************************************************************)
(* lv2_worker_respond: two ring writes, the size and then the data.        *)
(***************************************************************************)
lv2_worker_respond_size(ring, size) == zix_ring_write(ring, EncodeSize(size))

lv2_worker_respond_data(ring, data) == zix_ring_write(ring, data)

(***************************************************************************)
(* worker_func: the thread of a threaded worker. The plugin's work either  *)
(* returns at once or calls respond once, with the request it was given.   *)
(***************************************************************************)
\* worker_func's wait without the test of model->exit after it.
worker_func_sem_wait_no_exit_test(w) ==
    /\ wpc[w] = "sem_wait"
    /\ sem[w] > 0
    /\ sem' = [sem EXCEPT ![w] = @ - 1]
    /\ wpc' = [wpc EXCEPT ![w] = "read_size"]
    /\ UNCHANGED <<threaded, requests, responses, response, work_lock, lock_holder,
                   exit, wsize, wbuf, apc, aw, adata, read_space, esize, emit_iters,
                   blocks, nsched, fin, schedLog, workLog, respLog, delivLog,
                   respBlock, overflowed, bypassed, play_state, paused,
                   incoming_event_queue, port_control, out_buffer, last_in,
                   plugin_events, nevents, accepted_events, flushed_events, end_run,
                   plugin_calls, restoring>>
    /\ UNCHANGED <<midiVars, vstVars, moreVars>>

\* zix_sem_wait(&worker->sem); if (model->exit) break;
worker_func_sem_wait(w) ==
    /\ wpc[w] = "sem_wait"
    /\ sem[w] > 0
    /\ sem' = [sem EXCEPT ![w] = @ - 1]
    /\ wpc' = [wpc EXCEPT ![w] = IF exit THEN "exited" ELSE "read_size"]
    /\ UNCHANGED <<threaded, requests, responses, response, work_lock, lock_holder,
                   exit, wsize, wbuf, apc, aw, adata, read_space, esize, emit_iters,
                   blocks, nsched, fin, schedLog, workLog, respLog, delivLog,
                   respBlock, overflowed, bypassed, play_state, paused,
                   incoming_event_queue, port_control, out_buffer, last_in,
                   plugin_events, nevents, accepted_events, flushed_events, end_run,
                   plugin_calls, restoring>>
    /\ UNCHANGED <<midiVars, vstVars, moreVars>>

\* size = 0; zix_ring_read(requests, &size, sizeof(size)); buf = realloc(buf, size).
\* realloc(buf, 0) may return NULL, and then the thread returns.
worker_func_read_size(w) ==
    /\ wpc[w] = "read_size"
    /\ LET ok == zix_ring_can_read(requests[w], HeaderSize)
           size == IF ok THEN DecodeSize(zix_ring_peek(requests[w], HeaderSize)) ELSE 0
       IN /\ requests' = [requests EXCEPT ![w] = zix_ring_read(@, HeaderSize)]
          /\ wsize' = [wsize EXCEPT ![w] = size]
          /\ \E null \in IF size = 0 THEN BOOLEAN ELSE {FALSE} :
                wpc' = [wpc EXCEPT ![w] = IF null THEN "exited" ELSE "read_body"]
    /\ UNCHANGED <<threaded, responses, response, sem, work_lock, lock_holder, exit,
                   wbuf, apc, aw, adata, read_space, esize, emit_iters, blocks,
                   nsched, fin, schedLog, workLog, respLog, delivLog, respBlock,
                   overflowed, bypassed, play_state, paused, incoming_event_queue,
                   port_control, out_buffer, last_in, plugin_events, nevents,
                   accepted_events, flushed_events, end_run, plugin_calls, restoring>>
    /\ UNCHANGED <<midiVars, vstVars, moreVars>>

\* zix_ring_read(requests, buf, size)
worker_func_read_body(w) ==
    /\ wpc[w] = "read_body"
    /\ IF zix_ring_can_read(requests[w], wsize[w])
       THEN /\ wbuf' = [wbuf EXCEPT ![w] = BufStore(@, zix_ring_peek(requests[w], wsize[w]))]
            /\ requests' = [requests EXCEPT ![w] = zix_ring_read(@, wsize[w])]
       ELSE UNCHANGED <<wbuf, requests>>
    /\ wpc' = [wpc EXCEPT ![w] = "lock"]
    /\ UNCHANGED <<threaded, responses, response, sem, work_lock, lock_holder, exit,
                   wsize, apc, aw, adata, read_space, esize, emit_iters, blocks,
                   nsched, fin, schedLog, workLog, respLog, delivLog, respBlock,
                   overflowed, bypassed, play_state, paused, incoming_event_queue,
                   port_control, out_buffer, last_in, plugin_events, nevents,
                   accepted_events, flushed_events, end_run, plugin_calls, restoring>>
    /\ UNCHANGED <<midiVars, vstVars, moreVars>>

\* worker_func calling work without waiting for model->work_lock.
worker_func_lock_no_wait(w) ==
    /\ wpc[w] = "lock"
    /\ work_lock' = 0
    /\ lock_holder' = w
    /\ workLog' = Append1(workLog, w, Call(wsize[w], wbuf[w]))
    /\ wpc' = [wpc EXCEPT ![w] = "work"]
    /\ UNCHANGED <<threaded, requests, responses, response, sem, exit, wsize, wbuf,
                   apc, aw, adata, read_space, esize, emit_iters, blocks, nsched,
                   fin, schedLog, respLog, delivLog, respBlock, overflowed, bypassed,
                   play_state, paused, incoming_event_queue, port_control,
                   out_buffer, last_in, plugin_events, nevents, accepted_events,
                   flushed_events, end_run, plugin_calls, restoring>>
    /\ UNCHANGED <<midiVars, vstVars, moreVars>>

\* zix_sem_wait(&model->work_lock), and work is called with (size, buf).
worker_func_lock(w) ==
    /\ wpc[w] = "lock"
    /\ work_lock > 0
    /\ work_lock' = work_lock - 1
    /\ lock_holder' = w
    /\ workLog' = Append1(workLog, w, Call(wsize[w], wbuf[w]))
    /\ wpc' = [wpc EXCEPT ![w] = "work"]
    /\ UNCHANGED <<threaded, requests, responses, response, sem, exit, wsize, wbuf,
                   apc, aw, adata, read_space, esize, emit_iters, blocks, nsched,
                   fin, schedLog, respLog, delivLog, respBlock, overflowed, bypassed,
                   play_state, paused, incoming_event_queue, port_control,
                   out_buffer, last_in, plugin_events, nevents, accepted_events,
                   flushed_events, end_run, plugin_calls, restoring>>
    /\ UNCHANGED <<midiVars, vstVars, moreVars>>

\* Inside work the plugin calls respond(size, buf): the first ring write.
worker_func_work_respond(w) ==
    /\ wpc[w] = "work"
    /\ responses' = [responses EXCEPT ![w] = lv2_worker_respond_size(@, wsize[w])]
    /\ respLog' = Append1(respLog, w, Call(wsize[w], wbuf[w]))
    /\ overflowed' = (overflowed \/ zix_ring_write_fails(responses[w], EncodeSize(wsize[w])))
    /\ wpc' = [wpc EXCEPT ![w] = "respond_data"]
    /\ UNCHANGED <<threaded, requests, response, sem, work_lock, lock_holder, exit,
                   wsize, wbuf, apc, aw, adata, read_space, esize, emit_iters,
                   blocks, nsched, fin, schedLog, workLog, delivLog, respBlock,
                   bypassed, play_state, paused, incoming_event_queue, port_control,
                   out_buffer, last_in, plugin_events, nevents, accepted_events,
                   flushed_events, end_run, plugin_calls, restoring>>
    /\ UNCHANGED <<midiVars, vstVars, moreVars>>

\* The second ring write of respond; respond and then work return.
worker_func_work_respond_data(w) ==
    /\ wpc[w] = "respond_data"
    /\ responses' = [responses EXCEPT ![w] =
          lv2_worker_respond_data(@, BufBytes(wbuf[w], wsize[w]))]
    /\ respBlock' = Append1(respBlock, w, BlocksDone)
    /\ overflowed' =
          (overflowed \/ zix_ring_write_fails(responses[w], BufBytes(wbuf[w], wsize[w])))
    /\ wpc' = [wpc EXCEPT ![w] = "unlock"]
    /\ UNCHANGED <<threaded, requests, response, sem, work_lock, lock_holder, exit,
                   wsize, wbuf, apc, aw, adata, read_space, esize, emit_iters,
                   blocks, nsched, fin, schedLog, workLog, respLog, delivLog,
                   bypassed, play_state, paused, incoming_event_queue, port_control,
                   out_buffer, last_in, plugin_events, nevents, accepted_events,
                   flushed_events, end_run, plugin_calls, restoring>>
    /\ UNCHANGED <<midiVars, vstVars, moreVars>>

\* work returns without a call of respond.
worker_func_work_return(w) ==
    /\ wpc[w] = "work"
    /\ wpc' = [wpc EXCEPT ![w] = "unlock"]
    /\ UNCHANGED <<threaded, requests, responses, response, sem, work_lock,
                   lock_holder, exit, wsize, wbuf, apc, aw, adata, read_space, esize,
                   emit_iters, blocks, nsched, fin, schedLog, workLog, respLog,
                   delivLog, respBlock, overflowed, bypassed, play_state, paused,
                   incoming_event_queue, port_control, out_buffer, last_in,
                   plugin_events, nevents, accepted_events, flushed_events, end_run,
                   plugin_calls, restoring>>
    /\ UNCHANGED <<midiVars, vstVars, moreVars>>

\* zix_sem_post(&model->work_lock); back to the top of the loop.
worker_func_unlock(w) ==
    /\ wpc[w] = "unlock"
    /\ work_lock' = work_lock + 1
    /\ lock_holder' = "none"
    /\ wpc' = [wpc EXCEPT ![w] = "sem_wait"]
    /\ UNCHANGED <<threaded, requests, responses, response, sem, exit, wsize, wbuf,
                   apc, aw, adata, read_space, esize, emit_iters, blocks, nsched,
                   fin, schedLog, workLog, respLog, delivLog, respBlock, overflowed,
                   bypassed, play_state, paused, incoming_event_queue, port_control,
                   out_buffer, last_in, plugin_events, nevents, accepted_events,
                   flushed_events, end_run, plugin_calls, restoring>>
    /\ UNCHANGED <<midiVars, vstVars, moreVars>>

worker_func(w) ==
    \/ worker_func_sem_wait(w)
    \/ worker_func_read_size(w)
    \/ worker_func_read_body(w)
    \/ worker_func_lock(w)
    \/ worker_func_work_respond(w)
    \/ worker_func_work_respond_data(w)
    \/ worker_func_work_return(w)
    \/ worker_func_unlock(w)

(***************************************************************************)
(* The audio thread: Lv2Wrapper::process_event between the blocks, and     *)
(* Lv2Wrapper::process_audio with the plugin's run and its schedule_work   *)
(* calls inside it, followed by lv2_worker_emit_responses.                 *)
(***************************************************************************)
\* Processor::bypass_process for equal channel counts: the input is the output.
bypass_process(in_buffer) == in_buffer

\* _flush_event_queue: every event is popped and thrown away.
flush_event_queue(queue) == <<>>

\* Whether process_event handles an event of this type as a keyboard event.
is_keyboard_event(type) == type = "NOTE_ON"

\* RtEventFifo::push: the event is appended unless the queue is full.
push(queue, event) == IF Len(queue) < MaxQueue THEN Append(queue, event) ELSE queue

\* process_event: a parameter change is written to the port, a keyboard event is
\* pushed to the incoming event queue (a failed push is logged), anything else is
\* logged. The engine calls it on the audio thread, between two process_audio calls.
\* A keyboard event is identified by its place among those passed (id).
process_event(type, value, sample_offset) ==
    /\ apc = "idle"
    /\ IF type = "FLOAT_PARAMETER_CHANGE"
       THEN /\ port_control' = value
            /\ UNCHANGED <<incoming_event_queue, nevents, accepted_events>>
       ELSE IF is_keyboard_event(type)
       THEN LET event == [id |-> nevents + 1, type |-> type,
                          sample_offset |-> sample_offset]
            IN /\ nevents < MaxEvents
               /\ nevents' = nevents + 1
               /\ incoming_event_queue' = push(incoming_event_queue, event)
               /\ accepted_events' =
                      IF push(incoming_event_queue, event) # incoming_event_queue
                      THEN accepted_events \cup {event.id} ELSE accepted_events
               /\ UNCHANGED port_control
       ELSE UNCHANGED <<port_control, incoming_event_queue, nevents, accepted_events>>
    /\ UNCHANGED <<threaded, requests, responses, response, sem, work_lock,
                   lock_holder, exit, wpc, wsize, wbuf, apc, aw, adata, read_space,
                   esize, emit_iters, blocks, nsched, fin, schedLog, workLog,
                   respLog, delivLog, respBlock, overflowed, bypassed, play_state,
                   paused, out_buffer, last_in, plugin_events, flushed_events,
                   end_run, plugin_calls, restoring>>
    /\ UNCHANGED <<midiVars, vstVars, moreVars>>

\* Processor::set_bypassed, applied on the audio thread between two blocks.
set_bypassed(b) ==
    /\ apc = "idle"
    /\ bypassed' = b
    /\ UNCHANGED <<threaded, requests, responses, response, sem, work_lock,
                   lock_holder, exit, wpc, wsize, wbuf, apc, aw, adata, read_space,
                   esize, emit_iters, blocks, nsched, fin, schedLog, workLog,
                   respLog, delivLog, respBlock, overflowed, play_state, paused,
                   incoming_event_queue, port_control, out_buffer, last_in,
                   plugin_events, nevents, accepted_events, flushed_events, end_run,
                   plugin_calls, restoring>>
    /\ UNCHANGED <<midiVars, vstVars, moreVars>>

\* _convert_event_to_midi_buffer: the MIDI bytes of a keyboard event, kept as the
\* message they encode and the event they are made of.
convert_event_to_midi_buffer(event) == [message |-> event.type, id |-> event.id]

\* lv2_evbuf_write: what is appended to the event buffer.
lv2_evbuf_write(frames, subframes, type, data) ==
    [frames |-> frames, subframes |-> subframes, type |-> type, data |-> data]

\* _process_midi_input_for_current_port writing every event at frame 0.
process_midi_input_for_current_port_at_frame_0(queue) ==
    [i \in 1..Len(queue) |->
        lv2_evbuf_write(0, 0, "midi_MidiEvent", convert_event_to_midi_buffer(queue[i]))]

\* _process_midi_input_for_current_port: the events are popped from the queue,
\* oldest first, and each is written to the event buffer.
process_midi_input_for_current_port(queue) ==
    [i \in 1..Len(queue) |->
        lv2_evbuf_write(queue[i].sample_offset, 0, "midi_MidiEvent",
                        convert_event_to_midi_buffer(queue[i]))]

\* The ids of the events of a queue.
EventIds(queue) == {queue[i].id : i \in 1..Len(queue)}

\* process_audio whose bypassed branch leaves the event queue as it is.
process_audio_bypass_keeps_queue(in_buffer, out0) ==
    /\ apc = "idle"
    /\ blocks < MaxBlocks
    /\ blocks' = blocks + 1
    /\ last_in' = in_buffer
    /\ IF bypassed
       THEN /\ out_buffer' = bypass_process(in_buffer)
            /\ plugin_calls' = <<>>
            /\ UNCHANGED <<incoming_event_queue, play_state, paused, plugin_events, apc,
                           flushed_events>>
       ELSE IF play_state = "LV2_PAUSED"
       THEN /\ out_buffer' = out0
            /\ plugin_calls' = <<>>
            /\ UNCHANGED <<incoming_event_queue, play_state, paused, plugin_events, apc,
                           flushed_events>>
       ELSE /\ IF play_state = "LV2_PAUSE_REQUESTED"
               THEN play_state' = "LV2_PAUSED" /\ paused' = paused + 1
               ELSE UNCHANGED <<play_state, paused>>
            /\ plugin_events' = plugin_events
                    \o process_midi_input_for_current_port(incoming_event_queue)
            /\ incoming_event_queue' = <<>>
            /\ out_buffer' = out0
            /\ plugin_calls' = <<"connect_port", "run">>
            /\ apc' = "run"
            /\ UNCHANGED flushed_events
    /\ UNCHANGED <<threaded, requests, responses, response, sem, work_lock,
                   lock_holder, exit, wpc, wsize, wbuf, aw, adata, read_space, esize,
                   emit_iters, nsched, fin, schedLog, workLog, respLog, delivLog,
                   respBlock, overflowed, bypassed, port_control, nevents,
                   accepted_events, end_run, restoring>>
    /\ UNCHANGED <<midiVars, vstVars, moreVars>>

\* process_audio is entered. Bypassed, it copies the input and flushes the event
\* queue; paused, it returns and out_buffer keeps out0, what it held at the call;
\* otherwise a requested pause is acknowledged, the event queue is emptied into the
\* plugin's event buffer, and lilv_instance_run is reached.
process_audio(in_buffer, out0) ==
    /\ apc = "idle"
    /\ blocks < MaxBlocks
    /\ blocks' = blocks + 1
    /\ last_in' = in_buffer
    /\ IF bypassed
       THEN /\ out_buffer' = bypass_process(in_buffer)
            /\ incoming_event_queue' = flush_event_queue(incoming_event_queue)
            /\ flushed_events' = flushed_events \cup EventIds(incoming_event_queue)
            /\ plugin_calls' = <<>>
            /\ UNCHANGED <<play_state, paused, plugin_events, apc>>
       ELSE IF play_state = "LV2_PAUSED"
       THEN /\ out_buffer' = out0
            /\ plugin_calls' = <<>>
            /\ UNCHANGED <<incoming_event_queue, play_state, paused, plugin_events, apc,
                           flushed_events>>
       ELSE /\ IF play_state = "LV2_PAUSE_REQUESTED"
               THEN play_state' = "LV2_PAUSED" /\ paused' = paused + 1
               ELSE UNCHANGED <<play_state, paused>>
            /\ plugin_events' = plugin_events
                    \o process_midi_input_for_current_port(incoming_event_queue)
            /\ incoming_event_queue' = <<>>
            /\ out_buffer' = out0
            /\ plugin_calls' = <<"connect_port", "run">>
            /\ apc' = "run"
            /\ UNCHANGED flushed_events
    /\ UNCHANGED <<threaded, requests, responses, response, sem, work_lock,
                   lock_holder, exit, wpc, wsize, wbuf, aw, adata, read_space, esize,
                   emit_iters, nsched, fin, schedLog, workLog, respLog, delivLog,
                   respBlock, overflowed, bypassed, port_control, nevents,
                   accepted_events, end_run, restoring>>
    /\ UNCHANGED <<midiVars, vstVars, moreVars>>

\* lv2_worker_schedule, threaded: zix_ring_write(requests, &size, sizeof(size)).
lv2_worker_schedule_size(w, data) ==
    /\ apc = "run"
    /\ nsched < MaxSched
    /\ threaded[w]
    /\ nsched' = nsched + 1
    /\ schedLog' = Append1(schedLog, w, data)
    /\ aw' = w
    /\ adata' = data
    /\ requests' = [requests EXCEPT ![w] = zix_ring_write(@, EncodeSize(Len(data)))]
    /\ overflowed' =
          (overflowed \/ zix_ring_write_fails(requests[w], EncodeSize(Len(data))))
    /\ apc' = "sched_data"
    /\ UNCHANGED <<threaded, responses, response, sem, work_lock, lock_holder, exit,
                   wpc, wsize, wbuf, read_space, esize, emit_iters, blocks, fin,
                   workLog, respLog, delivLog, respBlock, bypassed, play_state,
                   paused, incoming_event_queue, port_control, out_buffer, last_in,
                   plugin_events, nevents, accepted_events, flushed_events, end_run,
                   plugin_calls, restoring>>
    /\ UNCHANGED <<midiVars, vstVars, moreVars>>

\* zix_ring_write(requests, data, size)
lv2_worker_schedule_data ==
    /\ apc = "sched_data"
    /\ requests' = [requests EXCEPT ![aw] = zix_ring_write(@, adata)]
    /\ overflowed' = (overflowed \/ zix_ring_write_fails(requests[aw], adata))
    /\ apc' = "sched_post"
    /\ UNCHANGED <<threaded, responses, response, sem, work_lock, lock_holder, exit,
                   wpc, wsize, wbuf, aw, adata, read_space, esize, emit_iters,
                   blocks, nsched, fin, schedLog, workLog, respLog, delivLog,
                   respBlock, bypassed, play_state, paused, incoming_event_queue,
                   port_control, out_buffer, last_in, plugin_events, nevents,
                   accepted_events, flushed_events, end_run, plugin_calls, restoring>>
    /\ UNCHANGED <<midiVars, vstVars, moreVars>>

\* zix_sem_post(&worker->sem); schedule_work returns into run.
lv2_worker_schedule_post ==
    /\ apc = "sched_post"
    /\ sem' = [sem EXCEPT ![aw] = @ + 1]
    /\ apc' = "run"
    /\ UNCHANGED <<threaded, requests, responses, response, work_lock, lock_holder,
                   exit, wpc, wsize, wbuf, aw, adata, read_space, esize, emit_iters,
                   blocks, nsched, fin, schedLog, workLog, respLog, delivLog,
                   respBlock, overflowed, bypassed, play_state, paused,
                   incoming_event_queue, port_control, out_buffer, last_in,
                   plugin_events, nevents, accepted_events, flushed_events, end_run,
                   plugin_calls, restoring>>
    /\ UNCHANGED <<midiVars, vstVars, moreVars>>

\* lv2_worker_schedule, not threaded: the call reaches zix_sem_wait(&model->work_lock).
lv2_worker_schedule_sync(w, data) ==
    /\ apc = "run"
    /\ nsched < MaxSched
    /\ ~threaded[w]
    /\ nsched' = nsched + 1
    /\ schedLog' = Append1(schedLog, w, data)
    /\ aw' = w
    /\ adata' = data
    /\ apc' = "sync_lock"
    /\ UNCHANGED <<threaded, requests, responses, response, sem, work_lock,
                   lock_holder, exit, wpc, wsize, wbuf, read_space, esize,
                   emit_iters, blocks, fin, workLog, respLog, delivLog, respBlock,
                   overflowed, bypassed, play_state, paused, incoming_event_queue,
                   port_control, out_buffer, last_in, plugin_events, nevents,
                   accepted_events, flushed_events, end_run, plugin_calls, restoring>>
    /\ UNCHANGED <<midiVars, vstVars, moreVars>>

\* zix_sem_wait(&model->work_lock) returns, and work is called with (size, data).
lv2_worker_schedule_lock ==
    /\ apc = "sync_lock"
    /\ work_lock > 0
    /\ work_lock' = work_lock - 1
    /\ lock_holder' = "audio"
    /\ workLog' = Append1(workLog, aw, Call(Len(adata), adata))
    /\ apc' = "sync_work"
    /\ UNCHANGED <<threaded, requests, responses, response, sem, exit, wpc, wsize,
                   wbuf, aw, adata, read_space, esize, emit_iters, blocks, nsched,
                   fin, schedLog, respLog, delivLog, respBlock, overflowed, bypassed,
                   play_state, paused, incoming_event_queue, port_control,
                   out_buffer, last_in, plugin_events, nevents, accepted_events,
                   flushed_events, end_run, plugin_calls, restoring>>
    /\ UNCHANGED <<midiVars, vstVars, moreVars>>

\* work runs on the audio thread and returns: zix_sem_post(&model->work_lock), and
\* schedule_work returns into run. If work called respond, both of its ring writes
\* are done here: this ring is written and read by the audio thread alone.
lv2_worker_schedule_unlock ==
    /\ apc = "sync_work"
    /\ \E responds \in BOOLEAN :
        IF responds
        THEN /\ responses' = [responses EXCEPT ![aw] =
                   lv2_worker_respond_data(lv2_worker_respond_size(@, Len(adata)), adata)]
             /\ respLog' = Append1(respLog, aw, Call(Len(adata), adata))
             /\ respBlock' = Append1(respBlock, aw, BlocksDone)
             /\ overflowed' =
                   (overflowed \/ zix_ring_write_fails(responses[aw],
                                                       EncodeSize(Len(adata)) \o adata))
        ELSE UNCHANGED <<responses, respLog, respBlock, overflowed>>
    /\ work_lock' = work_lock + 1
    /\ lock_holder' = "none"
    /\ apc' = "run"
    /\ UNCHANGED <<threaded, requests, response, sem, exit, wpc, wsize, wbuf, aw,
                   adata, read_space, esize, emit_iters, blocks, nsched, fin,
                   schedLog, workLog, delivLog, bypassed, play_state, paused,
                   incoming_event_queue, port_control, out_buffer, last_in,
                   plugin_events, nevents, accepted_events, flushed_events, end_run,
                   plugin_calls, restoring>>
    /\ UNCHANGED <<midiVars, vstVars, moreVars>>

\* Where the audio thread goes when emit_responses(w) returns: into
\* emit_responses of the next worker, or out of process_audio after the last.
EmitReturn(w) == IF w = Workers[1] THEN "emit_begin" ELSE "idle"

EmitNext(w) == IF w = Workers[1] THEN Workers[2] ELSE w

\* The end of process_audio with no call of end_run.
process_audio_end_without_end_run(calls) == calls

\* The end of process_audio, after both emit_responses calls: end_run is called if
\* the worker interface has one; the outputs are then read from the ports.
process_audio_end(calls) == IF end_run THEN Append(calls, "end_run") ELSE calls

\* The calls made when emit_responses(w) has returned.
EmitReturnCalls(w, calls) ==
    IF EmitReturn(w) = "idle" THEN process_audio_end(calls) ELSE calls

\* lv2_worker_emit_responses(w): read_space = zix_ring_read_space(responses), and
\* the loop's first test.
EmitBegin(w) ==
    /\ read_space' = zix_ring_read_space(responses[w])
    /\ emit_iters' = 0
    /\ IF zix_ring_read_space(responses[w]) # 0
       THEN aw' = w /\ apc' = "emit_size" /\ UNCHANGED plugin_calls
       ELSE /\ aw' = EmitNext(w) /\ apc' = EmitReturn(w)
            /\ plugin_calls' = EmitReturnCalls(w, plugin_calls)

\* lilv_instance_run returns, the plugin having written plugin_out to its audio
\* output port; lv2_worker_emit_responses(&state_worker) begins.
lilv_instance_run_return(plugin_out) ==
    /\ apc = "run"
    /\ out_buffer' = plugin_out
    /\ EmitBegin(Workers[1])
    /\ UNCHANGED <<threaded, requests, responses, response, sem, work_lock,
                   lock_holder, exit, wpc, wsize, wbuf, adata, esize, blocks, nsched,
                   fin, schedLog, workLog, respLog, delivLog, respBlock, overflowed,
                   bypassed, play_state, paused, incoming_event_queue, port_control,
                   last_in, plugin_events, nevents, accepted_events, flushed_events,
                   end_run, restoring>>
    /\ UNCHANGED <<midiVars, vstVars, moreVars>>

\* lv2_worker_emit_responses(&worker) begins.
lv2_worker_emit_responses_begin ==
    /\ apc = "emit_begin"
    /\ EmitBegin(aw)
    /\ UNCHANGED <<threaded, requests, responses, response, sem, work_lock,
                   lock_holder, exit, wpc, wsize, wbuf, adata, esize, blocks, nsched,
                   fin, schedLog, workLog, respLog, delivLog, respBlock, overflowed,
                   bypassed, play_state, paused, incoming_event_queue, port_control,
                   out_buffer, last_in, plugin_events, nevents, accepted_events,
                   flushed_events, end_run, restoring>>
    /\ UNCHANGED <<midiVars, vstVars, moreVars>>

\* In the loop: size = 0; zix_ring_read(responses, &size, sizeof(size)).
lv2_worker_emit_responses_size ==
    /\ apc = "emit_size"
    /\ esize' = IF zix_ring_can_read(responses[aw], HeaderSize)
                THEN DecodeSize(zix_ring_peek(responses[aw], HeaderSize)) ELSE 0
    /\ responses' = [responses EXCEPT ![aw] = zix_ring_read(@, HeaderSize)]
    /\ apc' = "emit_data"
    /\ UNCHANGED <<threaded, requests, response, sem, work_lock, lock_holder, exit,
                   wpc, wsize, wbuf, aw, adata, read_space, emit_iters, blocks,
                   nsched, fin, schedLog, workLog, respLog, delivLog, respBlock,
                   overflowed, bypassed, play_state, paused, incoming_event_queue,
                   port_control, out_buffer, last_in, plugin_events, nevents,
                   accepted_events, flushed_events, end_run, plugin_calls, restoring>>
    /\ UNCHANGED <<midiVars, vstVars, moreVars>>

\* zix_ring_read(responses, worker->response, size); work_response(size, response);
\* read_space -= sizeof(size) + size; and the loop's test. read_space is a uint32_t
\* and the subtraction is modulo 2^32: the variable holds the representative of its
\* residue that lies between -2^31 and 2^31, so a negative v stands for 2^32 + v,
\* and the test read_space != 0 reads the same. Once read_space has wrapped the loop
\* is followed for MaxEmitIters more iterations; the thread is then left in it.
lv2_worker_emit_responses_data ==
    /\ apc = "emit_data"
    /\ LET ok == zix_ring_can_read(responses[aw], esize)
           buf == IF ok THEN BufStore(response[aw], zix_ring_peek(responses[aw], esize))
                  ELSE response[aw]
           left == read_space - (HeaderSize + esize)
       IN /\ response' = [response EXCEPT ![aw] = buf]
          /\ responses' = [responses EXCEPT ![aw] = zix_ring_read(@, esize)]
          /\ delivLog' = Append1(delivLog, aw, Call(esize, buf))
          /\ read_space' = left
          /\ emit_iters' = IF left < 0 THEN emit_iters + 1 ELSE emit_iters
          /\ IF left = 0
             THEN /\ aw' = EmitNext(aw) /\ apc' = EmitReturn(aw)
                  /\ plugin_calls' =
                        EmitReturnCalls(aw, Append(plugin_calls, "work_response"))
             ELSE /\ aw' = aw
                  /\ apc' = IF left < 0 /\ emit_iters >= MaxEmitIters
                            THEN "emit_spin" ELSE "emit_size"
                  /\ plugin_calls' = Append(plugin_calls, "work_response")
    /\ UNCHANGED <<threaded, requests, sem, work_lock, lock_holder, exit, wpc, wsize,
                   wbuf, adata, esize, blocks, nsched, fin, schedLog, workLog,
                   respLog, respBlock, overflowed, bypassed, play_state, paused,
                   incoming_event_queue, port_control, out_buffer, last_in,
                   plugin_events, nevents, accepted_events, flushed_events, end_run,
                   restoring>>
    /\ UNCHANGED <<midiVars, vstVars, moreVars>>

AudioThread(samples) ==
    \/ \E in_buffer \in samples, out0 \in samples : process_audio(in_buffer, out0)
    \/ \E w \in WorkerIds, data \in Payloads : lv2_worker_schedule_size(w, data)
    \/ lv2_worker_schedule_data
    \/ lv2_worker_schedule_post
    \/ \E w \in WorkerIds, data \in Payloads : lv2_worker_schedule_sync(w, data)
    \/ lv2_worker_schedule_lock
    \/ lv2_worker_schedule_unlock
    \/ \E plugin_out \in samples : lilv_instance_run_return(plugin_out)
    \/ lv2_worker_emit_responses_begin
    \/ lv2_worker_emit_responses_size
    \/ lv2_worker_emit_responses_data

(***************************************************************************)
(* The control thread: shutdown sets model->exit and then calls            *)
(* lv2_worker_finish for each worker, one call at a time.                  *)
(***************************************************************************)
set_exit ==
    /\ ~exit
    /\ exit' = TRUE
    /\ UNCHANGED <<threaded, requests, responses, response, sem, work_lock,
                   lock_holder, wpc, wsize, wbuf, apc, aw, adata, read_space, esize,
                   emit_iters, blocks, nsched, fin, schedLog, workLog, respLog,
                   delivLog, respBlock, overflowed, bypassed, play_state, paused,
                   incoming_event_queue, port_control, out_buffer, last_in,
                   plugin_events, nevents, accepted_events, flushed_events, end_run,
                   plugin_calls, restoring>>
    /\ UNCHANGED <<midiVars, vstVars, moreVars>>

\* if (worker->threaded) { zix_sem_post(&worker->sem); and the join below }
lv2_worker_finish(w) ==
    /\ exit
    /\ fin[w] = "no"
    /\ \A v \in WorkerIds : fin[v] # "posted"
    /\ IF threaded[w]
       THEN /\ sem' = [sem EXCEPT ![w] = @ + 1]
            /\ fin' = [fin EXCEPT ![w] = "posted"]
       ELSE /\ fin' = [fin EXCEPT ![w] = "joined"]
            /\ UNCHANGED sem
    /\ UNCHANGED <<threaded, requests, responses, response, work_lock, lock_holder,
                   exit, wpc, wsize, wbuf, apc, aw, adata, read_space, esize,
                   emit_iters, blocks, nsched, schedLog, workLog, respLog, delivLog,
                   respBlock, overflowed, bypassed, play_state, paused,
                   incoming_event_queue, port_control, out_buffer, last_in,
                   plugin_events, nevents, accepted_events, flushed_events, end_run,
                   plugin_calls, restoring>>
    /\ UNCHANGED <<midiVars, vstVars, moreVars>>

\* zix_thread_join(worker->thread) returns once worker_func has returned.
lv2_worker_finish_join(w) ==
    /\ fin[w] = "posted"
    /\ wpc[w] = "exited"
    /\ fin' = [fin EXCEPT ![w] = "joined"]
    /\ UNCHANGED <<threaded, requests, responses, response, sem, work_lock,
                   lock_holder, exit, wpc, wsize, wbuf, apc, aw, adata, read_space,
                   esize, emit_iters, blocks, nsched, schedLog, workLog, respLog,
                   delivLog, respBlock, overflowed, bypassed, play_state, paused,
                   incoming_event_queue, port_control, out_buffer, last_in,
                   plugin_events, nevents, accepted_events, flushed_events, end_run,
                   plugin_calls, restoring>>
    /\ UNCHANGED <<midiVars, vstVars, moreVars>>

ControlThread ==
    \/ set_exit
    \/ \E w \in WorkerIds : lv2_worker_finish(w)
    \/ \E w \in WorkerIds : lv2_worker_finish_join(w)

(***************************************************************************)
(* The thread that restores a plugin state: it asks the audio thread to    *)
(* pause the plugin, waits on model->paused, restores, and lets the plugin *)
(* run again.                                                              *)
(***************************************************************************)
request_pause ==
    /\ restoring = "idle"
    /\ play_state = "LV2_RUNNING"
    /\ play_state' = "LV2_PAUSE_REQUESTED"
    /\ restoring' = "waiting"
    /\ UNCHANGED <<threaded, requests, responses, response, sem, work_lock,
                   lock_holder, exit, wpc, wsize, wbuf, apc, aw, adata, read_space,
                   esize, emit_iters, blocks, nsched, fin, schedLog, workLog,
                   respLog, delivLog, respBlock, overflowed, bypassed, paused,
                   incoming_event_queue, port_control, out_buffer, last_in,
                   plugin_events, nevents, accepted_events, flushed_events, end_run,
                   plugin_calls>>
    /\ UNCHANGED <<midiVars, vstVars, moreVars>>

\* model->paused.wait() returns.
wait_paused ==
    /\ restoring = "waiting"
    /\ paused > 0
    /\ paused' = paused - 1
    /\ restoring' = "restoring"
    /\ UNCHANGED <<threaded, requests, responses, response, sem, work_lock,
                   lock_holder, exit, wpc, wsize, wbuf, apc, aw, adata, read_space,
                   esize, emit_iters, blocks, nsched, fin, schedLog, workLog,
                   respLog, delivLog, respBlock, overflowed, bypassed, play_state,
                   incoming_event_queue, port_control, out_buffer, last_in,
                   plugin_events, nevents, accepted_events, flushed_events, end_run,
                   plugin_calls>>
    /\ UNCHANGED <<midiVars, vstVars, moreVars>>

resume ==
    /\ restoring = "restoring"
    /\ play_state' = "LV2_RUNNING"
    /\ restoring' = "idle"
    /\ UNCHANGED <<threaded, requests, responses, response, sem, work_lock,
                   lock_holder, exit, wpc, wsize, wbuf, apc, aw, adata, read_space,
                   esize, emit_iters, blocks, nsched, fin, schedLog, workLog,
                   respLog, delivLog, respBlock, overflowed, bypassed, paused,
                   incoming_event_queue, port_control, out_buffer, last_in,
                   plugin_events, nevents, accepted_events, flushed_events, end_run,
                   plugin_calls>>
    /\ UNCHANGED <<midiVars, vstVars, moreVars>>

StateThread ==
    \/ request_pause
    \/ wait_paused
    \/ resume


(***************************************************************************)
(* Part 2: the MIDI dispatcher (src/engine/midi_dispatcher.cpp).           *)
(***************************************************************************)
\* MidiDispatcher::_midi_inputs, the number of MIDI input ports.
NumMidiInputs == 1
\* Connections made over a run of the model.
MaxConns == 3

\* midi::MidiChannel::OMNI, the slot after the sixteen channels.
OMNI == 16
\* midi::MAX_VALUE, the largest value of a data byte.
MAX_VALUE == 127

\* The channel slots of a route table.
ChannelSlots == 0..OMNI
\* The controller numbers whose slots the model keeps (the others stay empty).
CcNumbers == {7}
\* Arguments of the connect calls.
ConnectInputs == -1..NumMidiInputs
ConnectChannels == {0, OMNI}
ProcessorNames == {"track1", "nosuch"}
ParameterNames == {"gain", "nosuch"}
Ranges == {<<0, 2>>}
\* Inbound frames: a status byte and two data bytes.
StatusBytes == {128, 144, 145, 160, 176}
DataBytes1 == {7, 60}
DataBytes2 == {64}
Frames == {<<s, d1, d2>> : s \in StatusBytes, d1 \in DataBytes1, d2 \in DataBytes2}

MidiInit ==
    /\ cc_routes = <<>>
    /\ kb_routes_in = <<>>
    /\ posted = <<>>
    /\ last_frame = <<>>
    /\ midi_status = "NONE"
    /\ nconns = 0
    /\ kb_routes_out = <<>>
    /\ sent = <<>>
    /\ last_event = <<>>

\* BaseEngine::processor_id_from_name and parameter_id_from_name.
processor_id_from_name(name) ==
    IF name = "track1" THEN [status |-> "OK", id |-> 1]
    ELSE [status |-> "INVALID_PROCESSOR", id |-> 0]

parameter_id_from_name(processor_name, parameter_name) ==
    IF processor_id_from_name(processor_name).status # "OK"
    THEN [status |-> "INVALID_PROCESSOR", id |-> 0]
    ELSE IF parameter_name = "gain" THEN [status |-> "OK", id |-> 0]
    ELSE [status |-> "INVALID_PARAMETER", id |-> 0]

\* table[key], with the entry std::map::operator[] makes when there is none.
MapEntry(table, key, fresh) == IF key \in DOMAIN table THEN table[key] ELSE fresh

MapPut(table, key, entry) ==
    [k \in DOMAIN table \cup {key} |-> IF k = key THEN entry ELSE table[k]]

\* A value-initialised entry of _cc_routes and of _kb_routes_in.
EmptyKbEntry == [ch \in ChannelSlots |-> <<>>]
EmptyCcEntry == [cc \in CcNumbers |-> EmptyKbEntry]

\* The connection's place in the order of registration is kept with it (reg).
connect_cc_to_parameter(midi_input, processor_name, parameter_name, cc_no, min_range, max_range, channel) ==
    /\ IF midi_input >= NumMidiInputs \/ midi_input < 0 \/ midi_input > OMNI
       THEN /\ midi_status' = "INVALID_MIDI_INPUT"
            /\ UNCHANGED <<cc_routes, nconns>>
       ELSE LET status == parameter_id_from_name(processor_name, parameter_name).status
            IN IF status # "OK"
               THEN /\ midi_status' = IF status = "INVALID_PROCESSOR"
                                      THEN "INVALID_PROCESSOR" ELSE "INVALID_PARAMETER"
                    /\ UNCHANGED <<cc_routes, nconns>>
               ELSE LET connection ==
                            [target |-> processor_id_from_name(processor_name).id,
                             parameter |->
                                 parameter_id_from_name(processor_name, parameter_name).id,
                             min_range |-> min_range,
                             max_range |-> max_range,
                             reg |-> nconns + 1]
                        entry == MapEntry(cc_routes, midi_input, EmptyCcEntry)
                    IN /\ nconns < MaxConns
                       /\ nconns' = nconns + 1
                       /\ cc_routes' = MapPut(cc_routes, midi_input,
                              [entry EXCEPT ![cc_no][channel] = Append(@, connection)])
                       /\ midi_status' = "OK"
    /\ posted' = <<>>
    /\ last_frame' = <<>>
    /\ UNCHANGED kb_routes_in
    /\ sent' = <<>>
    /\ last_event' = <<>>
    /\ UNCHANGED kb_routes_out
    /\ UNCHANGED <<lv2Vars, vstVars, moreVars>>

\* connect_kb_to_track appending the connection before it looks the chain up.
connect_kb_to_track_append_first(midi_input, chain_name, channel) ==
    /\ IF midi_input >= NumMidiInputs \/ midi_input < 0 \/ midi_input > OMNI
       THEN /\ midi_status' = "INVALID_MIDI_INPUT"
            /\ UNCHANGED <<kb_routes_in, nconns>>
       ELSE LET connection == [target |-> processor_id_from_name(chain_name).id,
                               parameter |-> 0,
                               min_range |-> 0,
                               max_range |-> 0,
                               reg |-> nconns + 1]
                entry == MapEntry(kb_routes_in, midi_input, EmptyKbEntry)
            IN /\ nconns < MaxConns
               /\ nconns' = nconns + 1
               /\ kb_routes_in' = MapPut(kb_routes_in, midi_input,
                      [entry EXCEPT ![channel] = Append(@, connection)])
               /\ midi_status' = IF processor_id_from_name(chain_name).status # "OK"
                                 THEN "INVALID_CHAIN_NAME" ELSE "OK"
    /\ posted' = <<>>
    /\ last_frame' = <<>>
    /\ UNCHANGED cc_routes
    /\ sent' = <<>>
    /\ last_event' = <<>>
    /\ UNCHANGED kb_routes_out
    /\ UNCHANGED <<lv2Vars, vstVars, moreVars>>

connect_kb_to_track(midi_input, chain_name, channel) ==
    /\ IF midi_input >= NumMidiInputs \/ midi_input < 0 \/ midi_input > OMNI
       THEN /\ midi_status' = "INVALID_MIDI_INPUT"
            /\ UNCHANGED <<kb_routes_in, nconns>>
       ELSE IF processor_id_from_name(chain_name).status # "OK"
       THEN /\ midi_status' = "INVALID_CHAIN_NAME"
            /\ UNCHANGED <<kb_routes_in, nconns>>
       ELSE LET connection == [target |-> processor_id_from_name(chain_name).id,
                               parameter |-> 0,
                               min_range |-> 0,
                               max_range |-> 0,
                               reg |-> nconns + 1]
                entry == MapEntry(kb_routes_in, midi_input, EmptyKbEntry)
            IN /\ nconns < MaxConns
               /\ nconns' = nconns + 1
               /\ kb_routes_in' = MapPut(kb_routes_in, midi_input,
                      [entry EXCEPT ![channel] = Append(@, connection)])
               /\ midi_status' = "OK"
    /\ posted' = <<>>
    /\ last_frame' = <<>>
    /\ UNCHANGED cc_routes
    /\ sent' = <<>>
    /\ last_event' = <<>>
    /\ UNCHANGED kb_routes_out
    /\ UNCHANGED <<lv2Vars, vstVars, moreVars>>

\* MidiDispatcher::_midi_outputs, the number of MIDI output ports.
NumMidiOutputs == 2
\* Arguments of connect_track_to_output.
ConnectOutputs == -1..NumMidiOutputs
OutChannels == {0, 1, OMNI}

\* The connection's output is set to 0 whatever port was asked for; the port of
\* the call (midi_output) and the place in the order of registration (reg) are
\* kept with the connection. The two ranges are kept as they are written.
connect_track_to_output(midi_output, chain_name, channel) ==
    /\ IF channel >= OMNI
       THEN /\ midi_status' = "INVAlID_CHANNEL"
            /\ UNCHANGED <<kb_routes_out, nconns>>
       ELSE IF midi_output >= NumMidiOutputs \/ midi_output < 0
       THEN /\ midi_status' = "INVALID_MIDI_OUTPUT"
            /\ UNCHANGED <<kb_routes_out, nconns>>
       ELSE IF processor_id_from_name(chain_name).status # "OK"
       THEN /\ midi_status' = "INVALID_CHAIN_NAME"
            /\ UNCHANGED <<kb_routes_out, nconns>>
       ELSE LET id == processor_id_from_name(chain_name).id
                connection == [channel |-> channel,
                               output |-> 0,
                               min_range |-> "1.234f",
                               max_range |-> "4.5678f",
                               cc_number |-> 123,
                               midi_output |-> midi_output,
                               reg |-> nconns + 1]
            IN /\ nconns < MaxConns
               /\ nconns' = nconns + 1
               /\ kb_routes_out' = MapPut(kb_routes_out, id,
                      Append(MapEntry(kb_routes_out, id, <<>>), connection))
               /\ midi_status' = "OK"
    /\ posted' = <<>>
    /\ last_frame' = <<>>
    /\ sent' = <<>>
    /\ last_event' = <<>>
    /\ UNCHANGED <<cc_routes, kb_routes_in>>
    /\ UNCHANGED <<lv2Vars, vstVars, moreVars>>

clear_connections ==
    /\ cc_routes' = <<>>
    /\ kb_routes_in' = <<>>
    /\ posted' = <<>>
    /\ last_frame' = <<>>
    /\ midi_status' = "NONE"
    /\ UNCHANGED nconns
    /\ sent' = <<>>
    /\ last_event' = <<>>
    /\ UNCHANGED kb_routes_out
    /\ UNCHANGED <<lv2Vars, vstVars, moreVars>>

\* midi::decode_message_type: the high nibble of the status byte.
decode_message_type(data) ==
    LET nibble == data[1] \div 16
    IN CASE nibble = 8 -> "NOTE_OFF"
         [] nibble = 9 -> "NOTE_ON"
         [] nibble = 10 -> "POLY_KEY_PRESSURE"
         [] nibble = 11 -> "CONTROL_CHANGE"
         [] nibble = 12 -> "PROGRAM_CHANGE"
         [] nibble = 13 -> "CHANNEL_PRESSURE"
         [] nibble = 14 -> "PITCH_BEND"
         [] OTHER -> "UNKNOWN"

\* midi::decode_control_change, decode_note_on and decode_note_off.
decode_channel(data) == data[1] % 16

decode_control_change(data) ==
    [channel |-> decode_channel(data), controller |-> data[2], value |-> data[3]]

decode_note_on(data) ==
    [channel |-> decode_channel(data), note |-> data[2], velocity |-> data[3]]

decode_note_off(data) ==
    [channel |-> decode_channel(data), note |-> data[2], velocity |-> data[3]]

\* The events made for a connection. A float is kept as its numerator over
\* MAX_VALUE: velocity127 / 127 is the velocity, value127 / 127 the value.
make_note_on_event(c, msg) ==
    [type |-> "KEYBOARD_EVENT", subtype |-> "NOTE_ON", target |-> c.target,
     note |-> msg.note, velocity127 |-> msg.velocity]

make_note_off_event(c, msg) ==
    [type |-> "KEYBOARD_EVENT", subtype |-> "NOTE_OFF", target |-> c.target,
     note |-> msg.note, velocity127 |-> msg.velocity]

\* make_param_change_event without the offset of the range's lower end.
make_param_change_event_no_offset(c, msg) ==
    [type |-> "PARAMETER_CHANGE_EVENT", subtype |-> "FLOAT_PARAMETER_CHANGE",
     target |-> c.target, parameter |-> c.parameter,
     value127 |-> msg.value * (c.max_range - c.min_range)]

make_param_change_event(c, msg) ==
    [type |-> "PARAMETER_CHANGE_EVENT", subtype |-> "FLOAT_PARAMETER_CHANGE",
     target |-> c.target, parameter |-> c.parameter,
     value127 |-> msg.value * (c.max_range - c.min_range) + MAX_VALUE * c.min_range]

\* cons->second[controller]: the model keeps the slots of CcNumbers.
CcSlot(entry, controller) ==
    IF controller \in CcNumbers THEN entry[controller] ELSE EmptyKbEntry

\* The event process_midi makes for connection c from a decoded message.
make_event(type, c, msg) ==
    CASE type = "CONTROL_CHANGE" -> make_param_change_event(c, msg)
      [] type = "NOTE_ON" -> make_note_on_event(c, msg)
      [] type = "NOTE_OFF" -> make_note_off_event(c, msg)

\* One of process_midi's loops: post_event for every connection of a list, in the
\* list's order. Each call is recorded with the slot of its list and the
\* connection's place in the order of registration.
PostAll(list, slot, type, msg) ==
    [i \in 1..Len(list) |->
        [event |-> make_event(type, list[i], msg), slot |-> slot, reg |-> list[i].reg]]

\* process_midi leaving out a connection of the channel's list whose target has
\* already got an event from the OMNI list.
process_midi_dedup(input, data) ==
    LET type == decode_message_type(data)
        Once(first, second) ==
            first \o SelectSeq(second, LAMBDA p :
                        \A i \in 1..Len(first) : first[i].event.target # p.event.target)
    IN /\ posted' =
            CASE type = "CONTROL_CHANGE" ->
                    LET decoded_msg == decode_control_change(data)
                    IN IF input \in DOMAIN cc_routes
                       THEN LET lists == CcSlot(cc_routes[input], decoded_msg.controller)
                            IN Once(PostAll(lists[OMNI], OMNI, type, decoded_msg),
                                    PostAll(lists[decoded_msg.channel],
                                            decoded_msg.channel, type, decoded_msg))
                       ELSE <<>>
              [] type = "NOTE_ON" ->
                    LET decoded_msg == decode_note_on(data)
                    IN IF input \in DOMAIN kb_routes_in
                       THEN Once(PostAll(kb_routes_in[input][OMNI], OMNI, type, decoded_msg),
                                 PostAll(kb_routes_in[input][decoded_msg.channel],
                                         decoded_msg.channel, type, decoded_msg))
                       ELSE <<>>
              [] type = "NOTE_OFF" ->
                    LET decoded_msg == decode_note_off(data)
                    IN IF input \in DOMAIN kb_routes_in
                       THEN Once(PostAll(kb_routes_in[input][OMNI], OMNI, type, decoded_msg),
                                 PostAll(kb_routes_in[input][decoded_msg.channel],
                                         decoded_msg.channel, type, decoded_msg))
                       ELSE <<>>
              [] OTHER -> <<>>
       /\ last_frame' = <<input, data>>
       /\ midi_status' = "NONE"
       /\ UNCHANGED <<cc_routes, kb_routes_in, nconns>>
       /\ sent' = <<>>
       /\ last_event' = <<>>
       /\ UNCHANGED kb_routes_out
       /\ UNCHANGED <<lv2Vars, vstVars, moreVars>>

\* process_midi with its two loops in the other order.
process_midi_channel_first(input, data) ==
    LET type == decode_message_type(data)
    IN /\ posted' =
            CASE type = "CONTROL_CHANGE" ->
                    LET decoded_msg == decode_control_change(data)
                    IN IF input \in DOMAIN cc_routes
                       THEN LET lists == CcSlot(cc_routes[input], decoded_msg.controller)
                            IN PostAll(lists[decoded_msg.channel],
                                       decoded_msg.channel, type, decoded_msg)
                                   \o PostAll(lists[OMNI], OMNI, type, decoded_msg)
                       ELSE <<>>
              [] type = "NOTE_ON" ->
                    LET decoded_msg == decode_note_on(data)
                    IN IF input \in DOMAIN kb_routes_in
                       THEN PostAll(kb_routes_in[input][decoded_msg.channel],
                                    decoded_msg.channel, type, decoded_msg)
                                \o PostAll(kb_routes_in[input][OMNI], OMNI, type, decoded_msg)
                       ELSE <<>>
              [] type = "NOTE_OFF" ->
                    LET decoded_msg == decode_note_off(data)
                    IN IF input \in DOMAIN kb_routes_in
                       THEN PostAll(kb_routes_in[input][decoded_msg.channel],
                                    decoded_msg.channel, type, decoded_msg)
                                \o PostAll(kb_routes_in[input][OMNI], OMNI, type, decoded_msg)
                       ELSE <<>>
              [] OTHER -> <<>>
       /\ last_frame' = <<input, data>>
       /\ midi_status' = "NONE"
       /\ UNCHANGED <<cc_routes, kb_routes_in, nconns>>
       /\ sent' = <<>>
       /\ last_event' = <<>>
       /\ UNCHANGED kb_routes_out
       /\ UNCHANGED <<lv2Vars, vstVars, moreVars>>

\* process_midi: the frame's type is decoded; a control change, a note on and a
\* note off post one event per connection of the OMNI list and then one per
\* connection of the list of the frame's channel; any other frame posts nothing.
process_midi(input, data) ==
    LET type == decode_message_type(data)
    IN /\ posted' =
            CASE type = "CONTROL_CHANGE" ->
                    LET decoded_msg == decode_control_change(data)
                    IN IF input \in DOMAIN cc_routes
                       THEN LET lists == CcSlot(cc_routes[input], decoded_msg.controller)
                            IN PostAll(lists[OMNI], OMNI, type, decoded_msg)
                                   \o PostAll(lists[decoded_msg.channel],
                                              decoded_msg.channel, type, decoded_msg)
                       ELSE <<>>
              [] type = "NOTE_ON" ->
                    LET decoded_msg == decode_note_on(data)
                    IN IF input \in DOMAIN kb_routes_in
                       THEN PostAll(kb_routes_in[input][OMNI], OMNI, type, decoded_msg)
                                \o PostAll(kb_routes_in[input][decoded_msg.channel],
                                           decoded_msg.channel, type, decoded_msg)
                       ELSE <<>>
              [] type = "NOTE_OFF" ->
                    LET decoded_msg == decode_note_off(data)
                    IN IF input \in DOMAIN kb_routes_in
                       THEN PostAll(kb_routes_in[input][OMNI], OMNI, type, decoded_msg)
                                \o PostAll(kb_routes_in[input][decoded_msg.channel],
                                           decoded_msg.channel, type, decoded_msg)
                       ELSE <<>>
              [] OTHER -> <<>>
       /\ last_frame' = <<input, data>>
       /\ midi_status' = "NONE"
       /\ UNCHANGED <<cc_routes, kb_routes_in, nconns>>
       /\ sent' = <<>>
       /\ last_event' = <<>>
       /\ UNCHANGED kb_routes_out
       /\ UNCHANGED <<lv2Vars, vstVars, moreVars>>

MidiInputs == 0..(NumMidiInputs - 1)

\* midi::encode_note_on, encode_note_off and encode_poly_key_pressure: the status
\* nibble with the channel, the note, and the velocity or pressure as a data byte
\* (the float times MAX_VALUE, the numerator the event keeps).
encode_note_on(channel, note, velocity127) == <<144 + channel, note, velocity127>>

encode_note_off(channel, note, velocity127) == <<128 + channel, note, velocity127>>

encode_poly_key_pressure(channel, note, pressure127) == <<160 + channel, note, pressure127>>

\* The bytes process makes of a keyboard event for a connection.
EncodeFor(event, c) ==
    CASE event.subtype = "NOTE_ON" ->
            encode_note_on(c.channel, event.note, event.velocity127)
      [] event.subtype = "NOTE_OFF" ->
            encode_note_off(c.channel, event.note, event.velocity127)
      [] event.subtype = "POLY_AFTERTOUCH" ->
            encode_poly_key_pressure(c.channel, event.note, event.velocity127)

EncodedSubtypes == {"NOTE_ON", "NOTE_OFF", "POLY_AFTERTOUCH"}

\* process: a keyboard event whose processor has an entry in _kb_routes_out is
\* encoded for each connection of the entry and sent to the connection's output;
\* a subtype that is not encoded ends the call at the first connection.
process(event) ==
    /\ sent' =
            IF event.type = "KEYBOARD_EVENT" /\ event.processor_id \in DOMAIN kb_routes_out
            THEN LET cons == kb_routes_out[event.processor_id]
                 IN IF event.subtype \in EncodedSubtypes
                    THEN [i \in 1..Len(cons) |->
                            [output |-> cons[i].output, data |-> EncodeFor(event, cons[i])]]
                    ELSE <<>>
            ELSE <<>>
    /\ last_event' = event
    /\ posted' = <<>>
    /\ last_frame' = <<>>
    /\ midi_status' = "NONE"
    /\ UNCHANGED <<cc_routes, kb_routes_in, kb_routes_out, nconns>>
    /\ UNCHANGED <<lv2Vars, vstVars, moreVars>>

\* The events handed to process: keyboard events of every subtype for a processor
\* with a name and for one without, and an event that is no keyboard event.
OutProcessors == {1, 2}
OutNotes == {60}
OutVelocities == {0, 100}
OutEvents ==
    {[type |-> "KEYBOARD_EVENT", subtype |-> s, processor_id |-> p, note |-> n,
      velocity127 |-> v] : s \in EncodedSubtypes \cup {"WRAPPED_MIDI"},
                           p \in OutProcessors, n \in OutNotes, v \in OutVelocities}
        \cup {[type |-> "PARAMETER_CHANGE_EVENT", subtype |-> "FLOAT_PARAMETER_CHANGE",
                processor_id |-> 1, note |-> 0, velocity127 |-> 0]}

\* The three connect calls with every kind of argument: ports on both sides of
\* the valid ones, names with and without a processor, a channel and OMNI.
ConnectNext ==
    \/ \E midi_input \in ConnectInputs, processor_name \in ProcessorNames,
          parameter_name \in ParameterNames, cc_no \in CcNumbers, range \in Ranges,
          channel \in ConnectChannels :
            connect_cc_to_parameter(midi_input, processor_name, parameter_name, cc_no,
                                    range[1], range[2], channel)
    \/ \E midi_input \in ConnectInputs, chain_name \in ProcessorNames,
          channel \in ConnectChannels :
            connect_kb_to_track(midi_input, chain_name, channel)
    \/ \E midi_output \in ConnectOutputs, chain_name \in ProcessorNames,
          channel \in ConnectChannels :
            connect_track_to_output(midi_output, chain_name, channel)

MidiOutNext ==
    \/ \E midi_output \in ConnectOutputs, chain_name \in ProcessorNames,
          channel \in OutChannels :
            connect_track_to_output(midi_output, chain_name, channel)
    \/ \E event \in OutEvents : process(event)

\* The control change routes and frames of the scaling: ranges that start at zero,
\* below zero and above their end, and values at and next to both ends.
CcRanges == {<<0, 2>>, <<-1, 1>>, <<2, 0>>}
CcValues == {0, 1, 64, MAX_VALUE - 1, MAX_VALUE}

CcNext ==
    \/ \E range \in CcRanges, channel \in ConnectChannels :
            connect_cc_to_parameter(0, "track1", "gain", 7, range[1], range[2], channel)
    \/ \E value \in CcValues : process_midi(0, <<176, 7, value>>)

MidiNext ==
    \/ \E midi_input \in ConnectInputs, processor_name \in ProcessorNames,
          parameter_name \in ParameterNames, cc_no \in CcNumbers, range \in Ranges,
          channel \in ConnectChannels :
            connect_cc_to_parameter(midi_input, processor_name, parameter_name, cc_no,
                                    range[1], range[2], channel)
    \/ \E midi_input \in ConnectInputs, chain_name \in ProcessorNames,
          channel \in ConnectChannels :
            connect_kb_to_track(midi_input, chain_name, channel)
    \/ clear_connections
    \/ \E input \in MidiInputs, data \in Frames : process_midi(input, data)


(***************************************************************************)
(* Part 3: the VST 2.x wrapper (src/library/vst2x/vst2x_wrapper.cpp).      *)
(***************************************************************************)
\* The chunks a bypass ramp lasts.
RampChunks == 1
\* The events _vst_midi_events_fifo holds.
FifoCapacity == 2
\* Keyboard events passed to process_event over a run of the model.
MaxVstEvents == 3
\* The bypass events that wait in the host's queue.
MaxPosted == 1

WrapperKinds == {"lv2", "vst2x"}

\* The wrapper after init, but for what the plugin answers to effCanDo("bypass").
VstReset ==
    /\ vst_bypassed = FALSE
    /\ ramp_count = 0
    /\ vst_midi_events_fifo = <<>>
    /\ host_control = <<>>
    /\ vpc = "idle"
    /\ vst_in = Silence
    /\ vst_out = Silence
    /\ vst_calls = <<>>
    /\ vst_accepted = <<>>
    /\ vst_delivered = <<>>
    /\ vst_nevents = 0

VstInit == VstReset /\ wrapper_kind = "lv2" /\ can_do_soft_bypass = FALSE

\* set_bypass that starts a ramp at every call.
BypassManager_set_bypass_ramps_anew(current, asked, count) == <<asked, RampChunks>>

\* BypassManager: set_bypass starts a ramp when the bypass asked for is not the one
\* it has; should_process is false once the ramp to a bypass is over; should_ramp
\* is true during a ramp; crossfade_output takes one chunk off the ramp.
BypassManager_set_bypass(current, asked, count) ==
    IF asked # current THEN <<asked, RampChunks>> ELSE <<current, count>>

BypassManager_should_process == ~vst_bypassed \/ ramp_count > 0

BypassManager_should_ramp == ramp_count > 0

\* Vst2xMidiEventFIFO: push appends unless the fifo is full and tells whether it
\* did; flush hands the events over and leaves the fifo empty.
Vst2xMidiEventFIFO_push(fifo, event) ==
    IF Len(fifo) < FifoCapacity THEN <<TRUE, Append(fifo, event)>> ELSE <<FALSE, fifo>>

Vst2xMidiEventFIFO_flush(fifo) == <<fifo, <<>>>>

\* A call the wrapper makes, with its arguments.
PluginCall(op, arg) == [op |-> op, arg |-> arg]

\* set_bypassed that also sets the bypass manager itself.
Vst2xWrapper_set_bypassed_direct(bypass) ==
    /\ Len(host_control) < MaxPosted
    /\ host_control' = Append(host_control, bypass)
    /\ vst_bypassed' = BypassManager_set_bypass(vst_bypassed, bypass, ramp_count)[1]
    /\ ramp_count' = BypassManager_set_bypass(vst_bypassed, bypass, ramp_count)[2]
    /\ UNCHANGED <<wrapper_kind, can_do_soft_bypass, vst_midi_events_fifo, vpc, vst_in,
                   vst_out, vst_calls, vst_accepted, vst_delivered, vst_nevents>>
    /\ UNCHANGED <<lv2Vars, midiVars, moreVars>>

\* Vst2xWrapper::set_bypassed posts a SetProcessorBypassEvent to the host and
\* touches nothing of the wrapper. It runs on a thread that is not the audio
\* thread, at any time.
Vst2xWrapper_set_bypassed(bypass) ==
    /\ Len(host_control) < MaxPosted
    /\ host_control' = Append(host_control, bypass)
    /\ UNCHANGED <<wrapper_kind, can_do_soft_bypass, vst_bypassed, ramp_count,
                   vst_midi_events_fifo, vpc, vst_in, vst_out, vst_calls, vst_accepted,
                   vst_delivered, vst_nevents>>
    /\ UNCHANGED <<lv2Vars, midiVars, moreVars>>

\* The events the engine passes to process_event: a parameter change, keyboard
\* events, the bypass event at the head of the host's queue, and an event the
\* wrapper does not handle.
VstEventTypes == {"FLOAT_PARAMETER_CHANGE", "NOTE_ON", "NOTE_OFF", "SET_BYPASS", "TEMPO"}

Vst2x_is_keyboard_event(type) == type \in {"NOTE_ON", "NOTE_OFF"}

\* process_event that passes every bypass event on to the plugin.
Vst2xWrapper_process_event_always_forwards(type, value) ==
    /\ vpc = "idle"
    /\ IF type = "FLOAT_PARAMETER_CHANGE"
       THEN /\ vst_calls' = <<PluginCall("setParameter", <<value>>)>>
            /\ UNCHANGED <<vst_midi_events_fifo, vst_accepted, vst_nevents, vst_bypassed,
                           ramp_count, host_control>>
       ELSE IF Vst2x_is_keyboard_event(type)
       THEN LET event == [type |-> type, id |-> vst_nevents + 1]
                pushed == Vst2xMidiEventFIFO_push(vst_midi_events_fifo, event)
            IN /\ vst_nevents < MaxVstEvents
               /\ vst_nevents' = vst_nevents + 1
               /\ vst_midi_events_fifo' = pushed[2]
               /\ vst_accepted' = IF pushed[1] THEN Append(vst_accepted, event)
                                  ELSE vst_accepted
               /\ vst_calls' = <<>>
               /\ UNCHANGED <<vst_bypassed, ramp_count, host_control>>
       ELSE IF type = "SET_BYPASS"
       THEN /\ host_control # <<>>
            /\ value = Head(host_control)
            /\ host_control' = Tail(host_control)
            /\ vst_bypassed' = BypassManager_set_bypass(vst_bypassed, value, ramp_count)[1]
            /\ ramp_count' = BypassManager_set_bypass(vst_bypassed, value, ramp_count)[2]
            /\ vst_calls' = <<PluginCall("set_bypass", <<value>>),
                              PluginCall("effSetBypass", <<value>>)>>
            /\ UNCHANGED <<vst_midi_events_fifo, vst_accepted, vst_nevents>>
       ELSE /\ vst_calls' = <<>>
            /\ UNCHANGED <<vst_midi_events_fifo, vst_accepted, vst_nevents, vst_bypassed,
                           ramp_count, host_control>>
    /\ UNCHANGED <<wrapper_kind, can_do_soft_bypass, vpc, vst_in, vst_out, vst_delivered>>
    /\ UNCHANGED <<lv2Vars, midiVars, moreVars>>

\* process_event: a parameter change calls setParameter, a keyboard event is pushed
\* to the fifo (a failed push is logged), a bypass event sets the bypass manager and
\* is passed on with effSetBypass if the plugin does soft bypass; anything else is
\* logged. The engine calls it on the audio thread, between two process_audio
\* calls, and hands the posted bypass events over in the order they were posted.
\* A keyboard event is identified by its place among those passed (id).
Vst2xWrapper_process_event(type, value) ==
    /\ vpc = "idle"
    /\ IF type = "FLOAT_PARAMETER_CHANGE"
       THEN /\ vst_calls' = <<PluginCall("setParameter", <<value>>)>>
            /\ UNCHANGED <<vst_midi_events_fifo, vst_accepted, vst_nevents, vst_bypassed,
                           ramp_count, host_control>>
       ELSE IF Vst2x_is_keyboard_event(type)
       THEN LET event == [type |-> type, id |-> vst_nevents + 1]
                pushed == Vst2xMidiEventFIFO_push(vst_midi_events_fifo, event)
            IN /\ vst_nevents < MaxVstEvents
               /\ vst_nevents' = vst_nevents + 1
               /\ vst_midi_events_fifo' = pushed[2]
               /\ vst_accepted' = IF pushed[1] THEN Append(vst_accepted, event)
                                  ELSE vst_accepted
               /\ vst_calls' = <<>>
               /\ UNCHANGED <<vst_bypassed, ramp_count, host_control>>
       ELSE IF type = "SET_BYPASS"
       THEN /\ host_control # <<>>
            /\ value = Head(host_control)
            /\ host_control' = Tail(host_control)
            /\ vst_bypassed' = BypassManager_set_bypass(vst_bypassed, value, ramp_count)[1]
            /\ ramp_count' = BypassManager_set_bypass(vst_bypassed, value, ramp_count)[2]
            /\ vst_calls' = <<PluginCall("set_bypass", <<value>>)>>
                                \o IF can_do_soft_bypass
                                   THEN <<PluginCall("effSetBypass", <<value>>)>> ELSE <<>>
            /\ UNCHANGED <<vst_midi_events_fifo, vst_accepted, vst_nevents>>
       ELSE /\ vst_calls' = <<>>
            /\ UNCHANGED <<vst_midi_events_fifo, vst_accepted, vst_nevents, vst_bypassed,
                           ramp_count, host_control>>
    /\ UNCHANGED <<wrapper_kind, can_do_soft_bypass, vpc, vst_in, vst_out, vst_delivered>>
    /\ UNCHANGED <<lv2Vars, midiVars, moreVars>>

\* process_audio that passes the events of the fifo to the plugin and leaves them
\* in the fifo.
Vst2xWrapper_process_audio_enter_keeps_events(in_buffer, out0) ==
    /\ vpc = "idle"
    /\ vpc' = "block"
    /\ vst_in' = in_buffer
    /\ IF can_do_soft_bypass = FALSE /\ BypassManager_should_process = FALSE
       THEN /\ vst_out' = bypass_process(in_buffer)
            /\ vst_calls' = <<PluginCall("bypass_process", <<>>)>>
            /\ vst_midi_events_fifo' = Vst2xMidiEventFIFO_flush(vst_midi_events_fifo)[2]
            /\ UNCHANGED vst_delivered
       ELSE LET events == vst_midi_events_fifo
            IN /\ vst_out' = out0
               /\ vst_calls' = <<PluginCall("effProcessEvents", events)>>
               /\ vst_delivered' = vst_delivered \o events
               /\ UNCHANGED vst_midi_events_fifo
    /\ UNCHANGED <<wrapper_kind, can_do_soft_bypass, vst_bypassed, ramp_count, host_control,
                   vst_accepted, vst_nevents>>
    /\ UNCHANGED <<lv2Vars, midiVars, moreVars>>

\* process_audio up to the call of processReplacing: without soft bypass and with a
\* bypass manager that says not to process, the input is copied and the fifo
\* flushed; otherwise the flushed events go to the plugin with effProcessEvents.
\* out0 is what out_buffer held at the call.
Vst2xWrapper_process_audio_enter(in_buffer, out0) ==
    /\ vpc = "idle"
    /\ vpc' = "block"
    /\ vst_in' = in_buffer
    /\ vst_midi_events_fifo' = Vst2xMidiEventFIFO_flush(vst_midi_events_fifo)[2]
    /\ IF can_do_soft_bypass = FALSE /\ BypassManager_should_process = FALSE
       THEN /\ vst_out' = bypass_process(in_buffer)
            /\ vst_calls' = <<PluginCall("bypass_process", <<>>)>>
            /\ UNCHANGED vst_delivered
       ELSE LET events == Vst2xMidiEventFIFO_flush(vst_midi_events_fifo)[1]
            IN /\ vst_out' = out0
               /\ vst_calls' = <<PluginCall("effProcessEvents", events)>>
               /\ vst_delivered' = vst_delivered \o events
    /\ UNCHANGED <<wrapper_kind, can_do_soft_bypass, vst_bypassed, ramp_count, host_control,
                   vst_accepted, vst_nevents>>
    /\ UNCHANGED <<lv2Vars, midiVars, moreVars>>

\* The rest of process_audio: after the bypass branch it returns; in the other
\* branch processReplacing writes the plugin's output and, without soft bypass and
\* during a ramp, crossfade_output mixes it with the input. mixed is what the
\* crossfade leaves in out_buffer.
Vst2xWrapper_process_audio_return(plugin_out, mixed) ==
    /\ vpc = "block"
    /\ vpc' = "idle"
    /\ vst_accepted' = <<>>
    /\ IF vst_calls[1].op = "bypass_process"
       THEN UNCHANGED <<vst_out, vst_calls, ramp_count>>
       ELSE IF can_do_soft_bypass = FALSE /\ BypassManager_should_ramp
       THEN /\ vst_out' = mixed
            /\ ramp_count' = ramp_count - 1
            /\ vst_calls' = vst_calls \o <<PluginCall("processReplacing", <<>>),
                                           PluginCall("crossfade_output", <<>>)>>
       ELSE /\ vst_out' = plugin_out
            /\ vst_calls' = Append(vst_calls, PluginCall("processReplacing", <<>>))
            /\ UNCHANGED ramp_count
    /\ UNCHANGED <<wrapper_kind, can_do_soft_bypass, vst_bypassed, vst_midi_events_fifo,
                   host_control, vst_in, vst_delivered, vst_nevents>>
    /\ UNCHANGED <<lv2Vars, midiVars, moreVars>>

VstNext ==
    \/ \E bypass \in BOOLEAN : Vst2xWrapper_set_bypassed(bypass)
    \/ \E type \in VstEventTypes, value \in BOOLEAN : Vst2xWrapper_process_event(type, value)
    \/ \E in_buffer \in Samples, out0 \in Samples :
            Vst2xWrapper_process_audio_enter(in_buffer, out0)
    \/ \E plugin_out \in Samples, mixed \in Samples :
            Vst2xWrapper_process_audio_return(plugin_out, mixed)

(***************************************************************************)
(* Part 4: the loading of a plugin and the mapping of the audio channels   *)
(* (Vst2xWrapper::init, set_input_channels, set_output_channels and        *)
(* _map_audio_buffers; Lv2Wrapper::_create_ports and _map_audio_buffers).  *)
(***************************************************************************)
\* The most audio inputs, and outputs, a plugin has.
MaxChannels == 2

\* The slots of _process_inputs and of _process_outputs that are looked at.
Slots == 0..MaxChannels

\* What the wrapper finds at _plugin_path: whether the library opens, whether it
\* has the entry point, whether the AEffect has the magic number, whether every
\* parameter registers, and the audio inputs and outputs of the plugin.
PluginFiles ==
    [library : BOOLEAN, entry_point : BOOLEAN, magic : BOOLEAN, parameters : BOOLEAN,
     numInputs : Slots, numOutputs : Slots]

\* A stereo plugin that loads.
StereoPluginFile ==
    [library |-> TRUE, entry_point |-> TRUE, magic |-> TRUE, parameters |-> TRUE,
     numInputs |-> 2, numOutputs |-> 2]

\* A slot that was never set.
Unset == [buffer |-> "unset", channel |-> 0]

\* The wrapper as its constructor leaves it.
LoadConstructed ==
    /\ library_handle = "null"
    /\ plugin_handle = "null"
    /\ plugin_user = "null"
    /\ init_return = "none"
    /\ load_calls = <<>>
    /\ max_input_channels = 0
    /\ max_output_channels = 0
    /\ current_input_channels = 0
    /\ current_output_channels = 0
    /\ double_mono_input = FALSE
    /\ speaker_arr_status = "none"
    /\ process_inputs = [i \in Slots |-> Unset]
    /\ process_outputs = [i \in Slots |-> Unset]
    /\ mapped = FALSE

LoadInit == LoadConstructed /\ plugin_file = StereoPluginFile

\* _cleanup that closes the library and keeps the plugin handle.
cleanup_keeps_plugin_handle(plugin, library) ==
    [plugin_handle |-> plugin,
     library_handle |-> IF library # "null" THEN "closed" ELSE library,
     calls |-> IF library # "null" THEN <<"close_library_handle">> ELSE <<>>]

\* _cleanup: a plugin that was loaded is disabled and closed and its handle set to
\* null; a library that was opened is closed, and _library_handle keeps its value.
cleanup(plugin, library) ==
    [plugin_handle |-> "null",
     library_handle |-> IF library # "null" THEN "closed" ELSE library,
     calls |-> (IF plugin # "null" THEN <<"set_enabled", "effClose">> ELSE <<>>)
                 \o (IF library # "null" THEN <<"close_library_handle">> ELSE <<>>)]

\* The steps of init up to the one that fails, or to the end: the code it returns,
\* the calls it has made, and the handles before a _cleanup.
InitSteps(file) ==
    IF ~file.library
    THEN [code |-> "SHARED_LIBRARY_OPENING_ERROR", library |-> "null", plugin |-> "null",
          calls |-> <<"get_library_handle_for_plugin">>]
    ELSE IF ~file.entry_point
    THEN [code |-> "PLUGIN_ENTRY_POINT_NOT_FOUND", library |-> "open", plugin |-> "null",
          calls |-> <<"get_library_handle_for_plugin", "load_plugin">>]
    ELSE IF ~file.magic
    THEN [code |-> "PLUGIN_LOAD_ERROR", library |-> "open", plugin |-> "loaded",
          calls |-> <<"get_library_handle_for_plugin", "load_plugin">>]
    ELSE [code |-> IF file.parameters THEN "OK" ELSE "PARAMETER_ERROR",
          library |-> "open", plugin |-> "loaded",
          calls |-> <<"get_library_handle_for_plugin", "load_plugin", "effGetEffectName",
                      "effGetProductString", "effCanDo", "effOpen", "effSetSampleRate",
                      "effSetBlockSize", "register_parameters">>]

\* Vst2xWrapper::init: the library is opened, the plugin loaded, its magic number
\* tested, the channels set from the plugin's numInputs and numOutputs, the plugin
\* opened and its parameters registered. Each failure calls _cleanup and returns
\* its code; at the end the wrapper is made the plugin's user.
Vst2xWrapper_init ==
    /\ wrapper_kind = "vst2x"
    /\ init_return = "none"
    /\ LET steps == InitSteps(plugin_file)
           cleaned == cleanup(steps.plugin, steps.library)
           opened == plugin_file.library /\ plugin_file.entry_point /\ plugin_file.magic
       IN /\ init_return' = steps.code
          /\ IF steps.code = "OK"
             THEN /\ library_handle' = steps.library
                  /\ plugin_handle' = steps.plugin
                  /\ plugin_user' = "wrapper"
                  /\ load_calls' = steps.calls
             ELSE /\ library_handle' = cleaned.library_handle
                  /\ plugin_handle' = cleaned.plugin_handle
                  /\ plugin_user' = plugin_user
                  /\ load_calls' = steps.calls \o cleaned.calls
          /\ max_input_channels' = IF opened THEN plugin_file.numInputs
                                   ELSE max_input_channels
          /\ current_input_channels' = IF opened THEN plugin_file.numInputs
                                       ELSE current_input_channels
          /\ max_output_channels' = IF opened THEN plugin_file.numOutputs
                                    ELSE max_output_channels
          /\ current_output_channels' = IF opened THEN plugin_file.numOutputs
                                        ELSE current_output_channels
    /\ UNCHANGED <<plugin_file, double_mono_input, speaker_arr_status, process_inputs,
                   process_outputs, mapped>>
    /\ UNCHANGED otherThanLoad

\* Lv2Wrapper::_create_ports, in an init that succeeds: the audio input ports and
\* the audio output ports are counted, and all of them are in use.
Lv2Wrapper_create_ports ==
    /\ wrapper_kind = "lv2"
    /\ init_return = "none"
    /\ init_return' = "OK"
    /\ max_input_channels' = plugin_file.numInputs
    /\ max_output_channels' = plugin_file.numOutputs
    /\ current_input_channels' = plugin_file.numInputs
    /\ current_output_channels' = plugin_file.numOutputs
    /\ UNCHANGED <<plugin_file, library_handle, plugin_handle, plugin_user, load_calls,
                   double_mono_input, speaker_arr_status, process_inputs, process_outputs,
                   mapped>>
    /\ UNCHANGED otherThanLoad

\* _update_mono_mode that never turns the double mono mode on.
update_mono_mode_never(arr_status, current, max) == FALSE

\* _update_mono_mode: the value it leaves in _double_mono_input.
update_mono_mode(arr_status, current, max) ==
    IF arr_status THEN FALSE ELSE current = 1 /\ max = 2

\* Vst2xWrapper::set_input_channels: Processor::set_input_channels stores the
\* number, the plugin is told the speaker arrangement and answers whether it takes
\* it (valid_arr), and the mono mode is updated. The engine asks for no more
\* channels than the plugin has.
Vst2xWrapper_set_input_channels(channels, valid_arr) ==
    /\ wrapper_kind = "vst2x"
    /\ init_return = "OK"
    /\ channels <= max_input_channels
    /\ current_input_channels' = channels
    /\ speaker_arr_status' = valid_arr
    /\ mapped' = FALSE
    /\ double_mono_input' = update_mono_mode(valid_arr, channels, max_input_channels)
    /\ UNCHANGED <<plugin_file, library_handle, plugin_handle, plugin_user, init_return,
                   load_calls, max_input_channels, max_output_channels,
                   current_output_channels, process_inputs, process_outputs>>
    /\ UNCHANGED otherThanLoad

Vst2xWrapper_set_output_channels(channels, valid_arr) ==
    /\ wrapper_kind = "vst2x"
    /\ init_return = "OK"
    /\ channels <= max_output_channels
    /\ current_output_channels' = channels
    /\ speaker_arr_status' = valid_arr
    /\ mapped' = FALSE
    /\ double_mono_input' =
          update_mono_mode(valid_arr, current_input_channels, max_input_channels)
    /\ UNCHANGED <<plugin_file, library_handle, plugin_handle, plugin_user, init_return,
                   load_calls, max_input_channels, max_output_channels,
                   current_input_channels, process_inputs, process_outputs>>
    /\ UNCHANGED otherThanLoad

\* What a slot points to: a channel of in_buffer or of out_buffer, or channel 0 of
\* the wrapper's _dummy_input or _dummy_output.
InChannel(i) == [buffer |-> "in_buffer", channel |-> i]
OutChannel(i) == [buffer |-> "out_buffer", channel |-> i]
DummyInput == [buffer |-> "_dummy_input", channel |-> 0]
DummyOutput == [buffer |-> "_dummy_output", channel |-> 0]

\* _map_audio_buffers, the input slots: in double mono mode slots 0 and 1 are set
\* to channel 0; otherwise the slots below current are set to their channels and
\* those from current up to and including max to the dummy input.
map_process_inputs(slots, current, max, double_mono) ==
    IF double_mono
    THEN [i \in Slots |-> IF i \in {0, 1} THEN InChannel(0) ELSE slots[i]]
    ELSE [i \in Slots |-> IF i < current THEN InChannel(i)
                          ELSE IF i <= max THEN DummyInput ELSE slots[i]]

\* _map_audio_buffers, the output slots.
map_process_outputs(slots, current, max) ==
    [i \in Slots |-> IF i < current THEN OutChannel(i)
                     ELSE IF i <= max THEN DummyOutput ELSE slots[i]]

\* A block in which the plugin is run: process_audio calls _map_audio_buffers
\* before it runs the plugin. The code is the same in both wrappers.
map_audio_buffers ==
    /\ init_return = "OK"
    /\ process_inputs' = map_process_inputs(process_inputs, current_input_channels,
                                            max_input_channels, double_mono_input)
    /\ process_outputs' = map_process_outputs(process_outputs, current_output_channels,
                                              max_output_channels)
    /\ mapped' = TRUE
    /\ UNCHANGED <<plugin_file, library_handle, plugin_handle, plugin_user, init_return,
                   load_calls, max_input_channels, max_output_channels,
                   current_input_channels, current_output_channels, double_mono_input,
                   speaker_arr_status>>
    /\ UNCHANGED otherThanLoad

\* Whether the wrapper's destructor has run.
Destroyed == \E i \in 1..Len(load_calls) : load_calls[i] = "~Vst2xWrapper"

\* Vst2xWrapper::~Vst2xWrapper: _cleanup, with the handles the wrapper holds.
Vst2xWrapper_destructor ==
    /\ wrapper_kind = "vst2x"
    /\ ~Destroyed
    /\ LET cleaned == cleanup(plugin_handle, library_handle)
       IN /\ library_handle' = cleaned.library_handle
          /\ plugin_handle' = cleaned.plugin_handle
          /\ load_calls' = (load_calls \o <<"~Vst2xWrapper">>) \o cleaned.calls
    /\ UNCHANGED <<plugin_file, plugin_user, init_return, max_input_channels,
                   max_output_channels, current_input_channels, current_output_channels,
                   double_mono_input, speaker_arr_status, process_inputs, process_outputs,
                   mapped>>
    /\ UNCHANGED otherThanLoad

\* init of a wrapper that was not destroyed.
Vst2xWrapper_init_alive == ~Destroyed /\ Vst2xWrapper_init

UnloadNext ==
    \/ Vst2xWrapper_init_alive
    \/ Vst2xWrapper_destructor

LoadNext ==
    \/ Vst2xWrapper_init
    \/ Lv2Wrapper_create_ports
    \/ \E channels \in Slots, valid_arr \in BOOLEAN :
            Vst2xWrapper_set_input_channels(channels, valid_arr)
    \/ \E channels \in Slots, valid_arr \in BOOLEAN :
            Vst2xWrapper_set_output_channels(channels, valid_arr)
    \/ map_audio_buffers

(***************************************************************************)
(* Part 5: the time info the VST 2.x wrapper gives its plugin              *)
(* (Vst2xWrapper::time_info), synthesised from the engine's transport.     *)
(***************************************************************************)
\* The blocks the transport is advanced over.
MaxTimeBlocks == 4

PlayStateChanges == {"UNCHANGED", "STARTING", "STOPPING"}

\* VstTimeInfo flags, as sets of flag bits; | is the union, and a value is true in
\* a condition when it is not zero, that is when it has a bit.
kVstTransportChanged == {"kVstTransportChanged"}
kVstTransportPlaying == {"kVstTransportPlaying"}
SUSHI_HOST_TIME_CAPABILITIES ==
    {"kVstNanosValid", "kVstPpqPosValid", "kVstTempoValid", "kVstBarsValid",
     "kVstTimeSigValid"}

\* A bool where an int is expected: true is 1, the lowest bit.
BoolBits(b) == IF b THEN {"bit0"} ELSE {}

\* The transport before the first block, stopped or playing.
TimeInit ==
    /\ transport_playing = FALSE
    /\ playing_request = FALSE
    /\ transport_state_change = "UNCHANGED"
    /\ transport_samples = 0
    /\ time_info = [samplePos |-> 0, flags |-> {}]

\* Transport::set_playing: the play state asked for takes effect at the next block.
Transport_set_playing(playing) ==
    /\ playing_request' = playing
    /\ UNCHANGED <<transport_playing, transport_state_change, transport_samples, time_info>>
    /\ UNCHANGED otherThanTime

\* Transport::set_time, at the start of a block: the sample count advances, the
\* play state asked for is taken, and the state change is what this block changed.
Transport_set_time ==
    /\ transport_samples < MaxTimeBlocks
    /\ transport_samples' = transport_samples + 1
    /\ transport_playing' = playing_request
    /\ transport_state_change' =
          IF playing_request = transport_playing THEN "UNCHANGED"
          ELSE IF playing_request THEN "STARTING" ELSE "STOPPING"
    /\ UNCHANGED <<playing_request, time_info>>
    /\ UNCHANGED otherThanTime

\* The flags time_info computes. In
\*   flags = SUSHI_HOST_TIME_CAPABILITIES | transport->playing()? kVstTransportPlaying : 0;
\* the | binds tighter than the ?: and its result is the condition.
time_info_flags(playing, state_change) ==
    (IF (SUSHI_HOST_TIME_CAPABILITIES \cup BoolBits(playing)) # {}
     THEN kVstTransportPlaying ELSE {})
        \cup (IF state_change # "UNCHANGED" THEN kVstTransportChanged ELSE {})

\* Vst2xWrapper::time_info, called by the plugin during a block.
Vst2xWrapper_time_info ==
    /\ transport_samples > 0
    /\ time_info' = [samplePos |-> transport_samples,
                     flags |-> time_info_flags(transport_playing, transport_state_change)]
    /\ UNCHANGED <<transport_playing, playing_request, transport_state_change,
                   transport_samples>>
    /\ UNCHANGED otherThanTime

TimeNext ==
    \/ \E playing \in BOOLEAN : Transport_set_playing(playing)
    \/ Transport_set_time
    \/ Vst2xWrapper_time_info

(***************************************************************************)
(* Part 6: the JSON configurator (src/engine/json_configurator.cpp) and    *)
(* the engine calls it makes.                                              *)
(***************************************************************************)
\* The audio channels of the engine, inputs and outputs alike.
EngineChannels == 2

\* The uids of the internal plugins, and the paths a plugin loads from.
KnownUids == {"sushi.testing.gain"}
LoadablePaths == {"synth.so"}

\* An engine without tracks.
EmptyEngine == [tracks |-> <<>>, in_connections |-> {}, out_connections |-> {}]

\* The names of the engine's processors: its tracks and their plugins.
EngineProcessors(eng) ==
    {eng.tracks[i].name : i \in 1..Len(eng.tracks)}
        \cup UNION {{eng.tracks[i].plugins[j] : j \in 1..Len(eng.tracks[i].plugins)} :
                        i \in 1..Len(eng.tracks)}

EngineTrackChannels(eng, name) ==
    LET found == {i \in 1..Len(eng.tracks) : eng.tracks[i].name = name}
    IN IF found = {} THEN 0 ELSE eng.tracks[CHOOSE i \in found : TRUE].channels

\* BaseEngine::create_track: a track is a processor, and a processor's name is
\* unique.
Engine_create_track(eng, name, channels) ==
    IF name \in EngineProcessors(eng)
    THEN [status |-> "INVALID_PROCESSOR", engine |-> eng]
    ELSE [status |-> "OK",
          engine |-> [eng EXCEPT !.tracks =
                        Append(@, [name |-> name, channels |-> channels, plugins |-> <<>>])]]

\* BaseEngine::connect_audio_input_channel and connect_audio_output_channel (dir
\* tells which): the engine channel and the track channel must exist.
Engine_connect_audio_channel(eng, dir, engine_channel, track_channel, name) ==
    IF engine_channel >= EngineChannels \/ track_channel >= EngineTrackChannels(eng, name)
    THEN [status |-> "INVALID_CHANNEL", engine |-> eng]
    ELSE LET con == [engine_channel |-> engine_channel, track_channel |-> track_channel,
                     track |-> name]
         IN [status |-> "OK",
             engine |-> IF dir = "inputs"
                        THEN [eng EXCEPT !.in_connections = @ \cup {con}]
                        ELSE [eng EXCEPT !.out_connections = @ \cup {con}]]

\* BaseEngine::connect_audio_input_bus and connect_audio_output_bus: the two
\* channels of the bus are connected one after the other.
Engine_connect_audio_bus(eng, dir, engine_bus, track_bus, name) ==
    LET left == Engine_connect_audio_channel(eng, dir, 2 * engine_bus, 2 * track_bus, name)
    IN IF left.status # "OK" THEN left
       ELSE Engine_connect_audio_channel(left.engine, dir, 2 * engine_bus + 1,
                                         2 * track_bus + 1, name)

\* BaseEngine::add_plugin_to_track: the plugin is made from its uid or loaded from
\* its path, registered under its name, and put last on the track.
Engine_add_plugin_to_track(eng, track_name, plugin_uid, plugin_name, plugin_path, plugin_type) ==
    IF (plugin_type = "INTERNAL" /\ plugin_uid \notin KnownUids)
          \/ (plugin_type # "INTERNAL" /\ plugin_path \notin LoadablePaths)
    THEN [status |-> "INVALID_PLUGIN_UID", engine |-> eng]
    ELSE IF plugin_name \in EngineProcessors(eng)
    THEN [status |-> "INVALID_PROCESSOR", engine |-> eng]
    ELSE [status |-> "OK",
          engine |-> [eng EXCEPT !.tracks =
                        [i \in 1..Len(@) |->
                            IF @[i].name = track_name
                            THEN [@[i] EXCEPT !.plugins = Append(@, plugin_name)]
                            ELSE @[i]]]]

\* The loops of _make_track over the inputs or the outputs of a track: each
\* connection is made by bus or by channel, and the first that the engine rejects
\* ends the loop.
RECURSIVE make_track_connections(_, _, _, _)
make_track_connections(eng, dir, name, cons) ==
    IF cons = <<>> THEN [status |-> "OK", engine |-> eng]
    ELSE LET con == Head(cons)
             made == IF con.by = "engine_bus"
                     THEN Engine_connect_audio_bus(eng, dir, con.engine, con.track, name)
                     ELSE Engine_connect_audio_channel(eng, dir, con.engine, con.track, name)
         IN IF made.status # "OK"
            THEN [status |-> "INVALID_CONFIGURATION", engine |-> made.engine]
            ELSE make_track_connections(made.engine, dir, name, Tail(cons))

\* The loop of _make_track over the plugins of a track.
RECURSIVE make_track_plugins(_, _, _)
make_track_plugins(eng, name, defs) ==
    IF defs = <<>> THEN [status |-> "OK", engine |-> eng]
    ELSE LET def == Head(defs)
             plugin_type == IF def.type = "internal" THEN "INTERNAL"
                            ELSE IF def.type = "vst2x" THEN "VST2X" ELSE "VST3X"
             plugin_uid == IF def.type = "vst2x" THEN "" ELSE def.uid
             plugin_path == IF def.type = "internal" THEN "" ELSE def.path
             added == Engine_add_plugin_to_track(eng, name, plugin_uid, def.name,
                                                 plugin_path, plugin_type)
         IN IF added.status # "OK"
            THEN [status |-> IF added.status = "INVALID_PLUGIN_UID"
                             THEN "INVALID_PLUGIN_PATH" ELSE "INVALID_PLUGIN_NAME",
                  engine |-> added.engine]
            ELSE make_track_plugins(added.engine, name, Tail(defs))

\* _make_track that adds the plugins before it connects the inputs and the outputs.
make_track_plugins_first(eng, track_def) ==
    LET num_channels == IF track_def.mode = "mono" THEN 1 ELSE 2
        created == Engine_create_track(eng, track_def.name, num_channels)
        plugins == make_track_plugins(created.engine, track_def.name, track_def.plugins)
        ins == make_track_connections(plugins.engine, "inputs", track_def.name,
                                      track_def.inputs)
        outs == make_track_connections(ins.engine, "outputs", track_def.name,
                                       track_def.outputs)
    IN IF created.status # "OK"
       THEN [status |-> "INVALID_TRACK_NAME", engine |-> created.engine]
       ELSE IF plugins.status # "OK" THEN plugins
       ELSE IF ins.status # "OK" THEN ins
       ELSE outs

\* _make_track: the track is created, its inputs and its outputs are connected and
\* its plugins added; the first step that fails ends the call with its status.
make_track(eng, track_def) ==
    LET num_channels == IF track_def.mode = "mono" THEN 1 ELSE 2
        created == Engine_create_track(eng, track_def.name, num_channels)
        ins == make_track_connections(created.engine, "inputs", track_def.name,
                                      track_def.inputs)
        outs == make_track_connections(ins.engine, "outputs", track_def.name,
                                       track_def.outputs)
        plugins == make_track_plugins(outs.engine, track_def.name, track_def.plugins)
    IN IF created.status # "OK"
       THEN [status |-> "INVALID_TRACK_NAME", engine |-> created.engine]
       ELSE IF ins.status # "OK" THEN ins
       ELSE IF outs.status # "OK" THEN outs
       ELSE plugins

\* load_tracks, after the file was parsed: the tracks are made in order and the
\* first that fails ends the call. before is the engine as it was when the last
\* track that was tried was started.
RECURSIVE load_tracks(_, _)
load_tracks(eng, tracks) ==
    IF tracks = <<>> THEN [status |-> "OK", engine |-> eng, before |-> eng]
    ELSE LET made == make_track(eng, Head(tracks))
         IN IF made.status # "OK" \/ Len(tracks) = 1
            THEN [status |-> made.status, engine |-> made.engine, before |-> eng]
            ELSE load_tracks(made.engine, Tail(tracks))

\* The track definitions of the configuration files and of the _make_track calls.
TrackNames == {"main", "aux"}
TrackModes == {"mono", "stereo"}
Connection(by, engine_side, track_side) ==
    [by |-> by, engine |-> engine_side, track |-> track_side]
InputLists == {<<>>, <<Connection("engine_bus", 0, 0)>>}
OutputLists ==
    {<<>>,
     <<Connection("engine_channel", 1, 0), Connection("engine_channel", EngineChannels, 0)>>}
PluginDef(name, type, uid, path) == [name |-> name, type |-> type, uid |-> uid, path |-> path]
PluginLists ==
    {<<>>,
     <<PluginDef("gain", "internal", "sushi.testing.gain", "")>>,
     <<PluginDef("gain", "internal", "sushi.testing.gain", ""),
       PluginDef("eq", "internal", "wrong_uid", "")>>,
     <<PluginDef("synth", "vst2x", "", "synth.so"),
       PluginDef("comp", "vst2x", "", "synth.so")>>}
TrackDefs ==
    {def \in [name : TrackNames, mode : TrackModes, busses : {0}, inputs : InputLists,
              outputs : OutputLists, plugins : PluginLists] :
        def.inputs = <<>> \/ (def.outputs = <<>> /\ def.name = "main")}

\* Definitions of multibus tracks, which give their number of buses.
MultibusTrackDefs ==
    [name : TrackNames, mode : {"multibus"}, busses : {2}, inputs : {<<>>},
     outputs : {<<>>}, plugins : {<<PluginDef("gain", "internal", "sushi.testing.gain", "")>>}]

\* The tracks sections of the configuration files: up to two stereo tracks without
\* connections, each with plugins the engine can make.
ConfigTracks ==
    {def \in TrackDefs :
        /\ def.mode = "stereo" /\ def.inputs = <<>> /\ def.outputs = <<>>
        /\ Len(def.plugins) > 0
        /\ \A i \in 1..Len(def.plugins) : def.plugins[i].uid # "wrong_uid"}
TracksSections ==
    {<<>>} \cup {<<a>> : a \in ConfigTracks} \cup {<<a, b>> : a \in ConfigTracks, b \in ConfigTracks}

\* The sample rate the engine is constructed with.
SAMPLE_RATE == 44000

\* A configuration file as load_host_config meets it: whether it opens, whether
\* its text parses, whether it follows the schema of the section, and the number
\* written as host_config.samplerate.
HostConfigFile(good, parses, follows_schema, samplerate) ==
    [good |-> good, parses |-> parses, follows_schema |-> follows_schema,
     samplerate |-> samplerate]
NoFile == HostConfigFile(FALSE, FALSE, FALSE, 0)
SampleRates == {22050, 44100, 48000, 88200, 96000, 192000}
HostConfigFiles ==
    {HostConfigFile(good, parses, follows_schema, samplerate) :
        good \in BOOLEAN, parses \in BOOLEAN, follows_schema \in BOOLEAN,
        samplerate \in SampleRates}

\* The engine before a configuration is loaded; no MIDI section.
NoMidiConfig ==
    [track_connections |-> <<>>, track_out_connections |-> <<>>, cc_mappings |-> <<>>,
     program_change_mappings |-> <<>>, raw_midi_connections |-> <<>>]

ConfConstructed ==
    /\ engine = EmptyEngine
    /\ last_call = [op |-> "none", status |-> "none", tracks |-> <<>>, before |-> EmptyEngine]
    /\ load_midi_return = "none"
    /\ pc_routes = <<>>
    /\ raw_routes_in = <<>>
    /\ sample_rate = SAMPLE_RATE
    /\ host_config = [file |-> NoFile, status |-> "none"]

ConfInit == ConfConstructed /\ midi_config = NoMidiConfig

\* A call of _make_track.
JsonConfigurator_make_track(track_def) ==
    /\ engine' = make_track(engine, track_def).engine
    /\ last_call' = [op |-> "_make_track", status |-> make_track(engine, track_def).status,
                     tracks |-> <<track_def>>, before |-> engine]
    /\ UNCHANGED <<sample_rate, host_config,
                   midi_config, load_midi_return, pc_routes, raw_routes_in>>
    /\ UNCHANGED otherThanConf

\* load_tracks making the tracks of the section from the last to the first.
JsonConfigurator_load_tracks_last_first(tracks) ==
    LET reversed == [i \in 1..Len(tracks) |-> tracks[Len(tracks) + 1 - i]]
    IN /\ engine' = load_tracks(engine, reversed).engine
       /\ last_call' = [op |-> "load_tracks", status |-> load_tracks(engine, reversed).status,
                        tracks |-> tracks, before |-> load_tracks(engine, reversed).before]
       /\ UNCHANGED <<sample_rate, host_config,
                      midi_config, load_midi_return, pc_routes, raw_routes_in>>
       /\ UNCHANGED otherThanConf

\* A call of load_tracks for a file that parses.
JsonConfigurator_load_tracks(tracks) ==
    /\ engine' = load_tracks(engine, tracks).engine
    /\ last_call' = [op |-> "load_tracks", status |-> load_tracks(engine, tracks).status,
                     tracks |-> tracks, before |-> load_tracks(engine, tracks).before]
    /\ UNCHANGED <<sample_rate, host_config,
                   midi_config, load_midi_return, pc_routes, raw_routes_in>>
    /\ UNCHANGED otherThanConf

TracksNext ==
    \/ \E track_def \in TrackDefs \cup MultibusTrackDefs :
            JsonConfigurator_make_track(track_def)
    \/ \E tracks \in TracksSections : JsonConfigurator_load_tracks(tracks)

\* A value of the configuration file that is a string or an integer.
JsonString(s) == [is_string |-> TRUE, string |-> s, int |-> 0]
JsonInt(n) == [is_string |-> FALSE, string |-> "", int |-> n]

\* _get_midi_channel: a channel written as a string means every channel.
get_midi_channel(channels) == IF channels.is_string THEN OMNI ELSE channels.int

\* MidiDispatcher::connect_raw_midi_to_track: as connect_kb_to_track, into
\* _raw_routes_in.
connect_raw_midi_to_track(midi_input, chain_name, channel) ==
    /\ IF midi_input >= NumMidiInputs \/ midi_input < 0 \/ midi_input > OMNI
       THEN /\ midi_status' = "INVALID_MIDI_INPUT"
            /\ UNCHANGED <<raw_routes_in, nconns>>
       ELSE IF processor_id_from_name(chain_name).status # "OK"
       THEN /\ midi_status' = "INVALID_CHAIN_NAME"
            /\ UNCHANGED <<raw_routes_in, nconns>>
       ELSE LET connection == [target |-> processor_id_from_name(chain_name).id,
                               parameter |-> 0,
                               min_range |-> 0,
                               max_range |-> 0,
                               reg |-> nconns + 1]
                entry == MapEntry(raw_routes_in, midi_input, EmptyKbEntry)
            IN /\ nconns < MaxConns
               /\ nconns' = nconns + 1
               /\ raw_routes_in' = MapPut(raw_routes_in, midi_input,
                      [entry EXCEPT ![channel] = Append(@, connection)])
               /\ midi_status' = "OK"
    /\ posted' = <<>>
    /\ last_frame' = <<>>
    /\ sent' = <<>>
    /\ last_event' = <<>>
    /\ UNCHANGED <<cc_routes, kb_routes_in, kb_routes_out>>
    /\ UNCHANGED <<sample_rate, host_config,
                   engine, last_call, midi_config, load_midi_return, pc_routes>>
    /\ UNCHANGED <<lv2Vars, vstVars, loadVars, timeVars, paramVars>>

\* The midi sections of the configuration files. The entries load_midi hands to
\* the dispatcher are those of track_connections, track_out_connections and
\* cc_mappings; a section has at most MaxConns of them.
TrackConnection(port, track, channel, raw_midi) ==
    [port |-> port, track |-> track, channel |-> channel, raw_midi |-> raw_midi]
CcMapping(port, plugin_name, parameter_name) ==
    [port |-> port, plugin_name |-> plugin_name, parameter_name |-> parameter_name,
     cc_number |-> 7, min_range |-> 0, max_range |-> 2, channel |-> JsonString("all")]
TrackConnectionLists ==
    {<<>>,
     <<TrackConnection(0, "track1", JsonInt(0), FALSE)>>,
     <<TrackConnection(0, "track1", JsonString("all"), TRUE)>>,
     <<TrackConnection(0, "track1", JsonString("all"), FALSE),
       TrackConnection(0, "track1", JsonInt(0), TRUE)>>,
     <<TrackConnection(NumMidiInputs, "track1", JsonInt(0), FALSE)>>,
     <<TrackConnection(0, "nosuch", JsonInt(0), TRUE)>>}
TrackOutConnectionLists ==
    {<<>>,
     <<TrackConnection(0, "track1", JsonInt(0), FALSE)>>,
     <<TrackConnection(NumMidiOutputs, "track1", JsonInt(0), FALSE)>>,
     <<TrackConnection(0, "track1", JsonString("all"), FALSE)>>}
CcMappingLists ==
    {<<>>,
     <<CcMapping(0, "track1", "gain")>>,
     <<CcMapping(0, "track1", "nosuch")>>,
     <<CcMapping(0, "nosuch", "gain")>>,
     <<CcMapping(NumMidiInputs, "track1", "gain")>>}
ProgramChangeLists == {<<>>, <<TrackConnection(0, "track1", JsonString("all"), FALSE)>>}
RawMidiConnectionLists == {<<>>, <<TrackConnection(0, "track1", JsonInt(0), TRUE)>>}

\* The entries of a midi section that load_midi hands to the dispatcher.
HandledEntries(config) ==
    Len(config.track_connections) + Len(config.track_out_connections)
        + Len(config.cc_mappings)

MidiConfigs ==
    {config \in [track_connections : TrackConnectionLists,
                 track_out_connections : TrackOutConnectionLists,
                 cc_mappings : CcMappingLists,
                 program_change_mappings : ProgramChangeLists,
                 raw_midi_connections : RawMidiConnectionLists] :
        HandledEntries(config) <= MaxConns}

\* load_midi is in its loops: it has not returned, and the dispatcher accepted
\* every entry so far. The entries are counted by the connections made.
LoadMidiRunning == load_midi_return = "none" /\ midi_status \in {"NONE", "OK"}

\* One round of the loop of load_midi over track_connections.
load_midi_track_connections ==
    /\ LoadMidiRunning
    /\ nconns < Len(midi_config.track_connections)
    /\ LET con == midi_config.track_connections[nconns + 1]
       IN IF con.raw_midi
          THEN connect_raw_midi_to_track(con.port, con.track, get_midi_channel(con.channel))
          ELSE connect_kb_to_track(con.port, con.track, get_midi_channel(con.channel))

\* One round of the loop over track_out_connections.
load_midi_track_out_connections ==
    /\ LoadMidiRunning
    /\ nconns >= Len(midi_config.track_connections)
    /\ nconns < Len(midi_config.track_connections) + Len(midi_config.track_out_connections)
    /\ LET con == midi_config.track_out_connections[
                        nconns + 1 - Len(midi_config.track_connections)]
       IN connect_track_to_output(con.port, con.track, get_midi_channel(con.channel))

\* One round of the loop over cc_mappings.
load_midi_cc_mappings ==
    /\ LoadMidiRunning
    /\ nconns >= Len(midi_config.track_connections) + Len(midi_config.track_out_connections)
    /\ nconns < HandledEntries(midi_config)
    /\ LET cc_map == midi_config.cc_mappings[
                        nconns + 1 - Len(midi_config.track_connections)
                            - Len(midi_config.track_out_connections)]
       IN connect_cc_to_parameter(cc_map.port, cc_map.plugin_name, cc_map.parameter_name,
                                  cc_map.cc_number, cc_map.min_range, cc_map.max_range,
                                  get_midi_channel(cc_map.channel))

\* The status load_midi returns for what the dispatcher returned in one of its
\* three loops.
load_midi_status(loop, res) ==
    IF res = "OK" THEN "OK"
    ELSE IF loop = "track_connections"
    THEN IF res = "INVALID_MIDI_INPUT" THEN "INVALID_MIDI_PORT" ELSE "INVALID_TRACK_NAME"
    ELSE IF loop = "track_out_connections"
    THEN IF res = "INVALID_MIDI_OUTPUT" THEN "INVALID_MIDI_PORT" ELSE "INVALID_TRACK_NAME"
    ELSE IF res = "INVALID_MIDI_INPUT" THEN "INVALID_MIDI_PORT"
    ELSE IF res = "INVALID_PROCESSOR" THEN "INVALID_TRACK_NAME"
    ELSE "INVALID_PARAMETER"

\* load_midi returns: from the loop whose entry the dispatcher rejected, or after
\* the last of the three loops.
load_midi_return_status ==
    /\ load_midi_return = "none"
    /\ midi_status \notin {"NONE", "OK"} \/ nconns >= HandledEntries(midi_config)
    /\ load_midi_return' =
          IF midi_status \in {"NONE", "OK"} THEN "OK"
          ELSE IF nconns < Len(midi_config.track_connections)
          THEN load_midi_status("track_connections", midi_status)
          ELSE IF nconns < Len(midi_config.track_connections)
                                + Len(midi_config.track_out_connections)
          THEN load_midi_status("track_out_connections", midi_status)
          ELSE load_midi_status("cc_mappings", midi_status)
    /\ UNCHANGED <<sample_rate, host_config,
                   engine, last_call, midi_config, pc_routes, raw_routes_in>>
    /\ UNCHANGED otherThanConf

LoadMidiNext ==
    \/ load_midi_track_connections
    \/ load_midi_track_out_connections
    \/ load_midi_cc_mappings
    \/ load_midi_return_status

\* The bits of the significand of a float.
FLT_MANT_DIG == 24

RECURSIVE FloatUlp(_)
\* The distance between the floats next to a number that is not negative.
FloatUlp(n) == IF n < 2 ^ FLT_MANT_DIG THEN 1 ELSE 2 * FloatUlp(n \div 2)

\* rapidjson's GetFloat of a whole number that is not negative: the float nearest
\* to it, the one with the even significand when two are as near.
GetFloat(n) ==
    LET ulp == FloatUlp(n)
        below == (n \div ulp) * ulp
    IN IF 2 * (n - below) < ulp THEN below
       ELSE IF 2 * (n - below) > ulp THEN below + ulp
       ELSE IF (below \div ulp) % 2 = 0 THEN below ELSE below + ulp

\* _parse_file for the host_config section.
parse_file(file) ==
    IF ~file.good THEN "INVALID_FILE"
    ELSE IF ~file.parses THEN "INVALID_FILE"
    ELSE IF ~file.follows_schema THEN "INVALID_CONFIGURATION"
    ELSE "OK"

\* load_host_config that sets the sample rate before it looks at the status.
load_host_config_sets_rate_first(file) ==
    /\ sample_rate' = GetFloat(file.samplerate)
    /\ host_config' = [file |-> file, status |-> parse_file(file)]
    /\ UNCHANGED <<engine, last_call, midi_config, load_midi_return, pc_routes,
                   raw_routes_in>>
    /\ UNCHANGED otherThanConf

\* load_host_config.
load_host_config(file) ==
    /\ IF parse_file(file) # "OK"
       THEN UNCHANGED sample_rate
       ELSE sample_rate' = GetFloat(file.samplerate)
    /\ host_config' = [file |-> file, status |-> parse_file(file)]
    /\ UNCHANGED <<engine, last_call, midi_config, load_midi_return, pc_routes,
                   raw_routes_in>>
    /\ UNCHANGED otherThanConf

HostConfigNext == \E file \in HostConfigFiles : load_host_config(file)
(***************************************************************************)
(* The parameters of the wrappers: parameter_value of an id, and the event *)
(* a wrapper puts out when its plugin reports an automated parameter.      *)
(***************************************************************************)
MaxParams == 2

MaxNotified == 2

\* An ObjectId is a uint32_t, held as its high and its low 16 bits.
ObjectId(hi, lo) == [hi |-> hi, lo |-> lo]

\* static_cast<int>(ObjectId): the same 32 bits read as a signed int, so that ids
\* from 2^31 on come out negative.
static_cast_int(id) ==
    IF id.hi >= 32768 THEN (id.hi - 65536) * 65536 + id.lo ELSE id.hi * 65536 + id.lo

\* static_cast<ObjectId>(int): the 32 bits of the int read as unsigned.
static_cast_ObjectId(n) == ObjectId((n \div 65536) % 65536, n % 65536)

PortTypes == {"TYPE_CONTROL", "TYPE_AUDIO", "TYPE_EVENT"}

PortLists == UNION {[1..n -> PortTypes] : n \in 0..MaxParams}

\* The ids Lv2Wrapper::_register_parameters registers: the index in the ports list
\* of each control port.
Lv2Wrapper_register_parameters(ports) ==
    {_pi \in 0..(Len(ports) - 1) : ports[_pi + 1] = "TYPE_CONTROL"}

\* The ids Vst2xWrapper::_register_parameters registers: one for each index below
\* numParams.
Vst2xWrapper_register_parameters(numParams) == 0..(numParams - 1)

Vst2xPlugin(numParams, cv) ==
    [kind |-> "vst2x", numParams |-> numParams, ports |-> <<>>, cv_outputs |-> cv]

Lv2Plugin(ports) ==
    [kind |-> "lv2", numParams |-> 0, ports |-> ports, cv_outputs |-> {}]

\* The plugins a wrapper is initialised with. A parameter of a VST2 plugin may be
\* connected to a cv output.
ParamPlugins ==
    {Vst2xPlugin(n, cv) : n \in 0..MaxParams, cv \in {{}, {0}}}
        \cup {Lv2Plugin(ports) : ports \in PortLists}

RegisteredParameters ==
    IF param_plugin.kind = "vst2x"
    THEN Vst2xWrapper_register_parameters(param_plugin.numParams)
    ELSE Lv2Wrapper_register_parameters(param_plugin.ports)

\* Processor::parameter_count(): how many parameters are registered.
parameter_count == Cardinality(RegisteredParameters)

\* The ids asked for: those around the registered ones, the largest that is
\* positive as an int, and those from 2^31 on.
ObjectIds ==
    {ObjectId(0, lo) : lo \in 0..(MaxParams + 1)}
        \cup {ObjectId(32767, 65535), ObjectId(32768, 0), ObjectId(65535, 65535)}

NotifyIndices == (0 - 1)..(MaxParams + 1)

NotifiedValues == {0, 1}

NoRead == [what |-> "none", index |-> 0]

NoParamCall ==
    [called |-> FALSE, id |-> ObjectId(0, 0), code |-> "NONE", read |-> NoRead]

ParamConstructed == param_return = NoParamCall /\ notified = <<>>

ParamInit == ParamConstructed /\ param_plugin = Vst2xPlugin(1, {})

\* Vst2xWrapper::parameter_value: what it returns and what it asks the plugin.
Vst2xWrapper_parameter_value(parameter_id) ==
    IF static_cast_int(parameter_id) < param_plugin.numParams
    THEN [code |-> "OK",
          read |-> [what |-> "getParameter", index |-> static_cast_int(parameter_id)]]
    ELSE [code |-> "PARAMETER_NOT_FOUND", read |-> NoRead]

\* Lv2Wrapper::parameter_value: the outcomes it can have. With an index below zero
\* the read of _model->ports is outside the vector, and what the pointer read there
\* holds is not defined: null, something to read a value from, or nothing readable.
Lv2Wrapper_parameter_value(parameter_id) ==
    LET index == static_cast_int(parameter_id)
        num_ports == Len(param_plugin.ports)
    IN IF index < num_ports
       THEN IF index >= 0
            THEN {[code |-> "OK", read |-> [what |-> "port_control", index |-> index]]}
            ELSE {[code |-> "PARAMETER_NOT_FOUND",
                   read |-> [what |-> "outside_ports", index |-> index]],
                  [code |-> "OK", read |-> [what |-> "outside_ports", index |-> index]],
                  [code |-> "CRASH", read |-> [what |-> "outside_ports", index |-> index]]}
       ELSE {[code |-> "PARAMETER_NOT_FOUND", read |-> NoRead]}

Vst2xWrapper_parameter_value_call(parameter_id) ==
    /\ param_plugin.kind = "vst2x"
    /\ LET ret == Vst2xWrapper_parameter_value(parameter_id)
       IN param_return' = [called |-> TRUE, id |-> parameter_id,
                           code |-> ret.code, read |-> ret.read]
    /\ UNCHANGED <<param_plugin, notified>>
    /\ UNCHANGED otherThanParam

Lv2Wrapper_parameter_value_call(parameter_id) ==
    /\ param_plugin.kind = "lv2"
    /\ \E ret \in Lv2Wrapper_parameter_value(parameter_id) :
           param_return' = [called |-> TRUE, id |-> parameter_id,
                            code |-> ret.code, read |-> ret.read]
    /\ UNCHANGED <<param_plugin, notified>>
    /\ UNCHANGED otherThanParam

\* Processor::maybe_output_cv_value: a parameter connected to a cv output has its
\* value put out as a cv event, and the answer is true.
maybe_output_cv_value(parameter_index) == parameter_index \in param_plugin.cv_outputs

ParameterChangeEvent(parameter_index, value) ==
    [type |-> "FLOAT_PARAMETER_CHANGE", parameter_id |-> static_cast_ObjectId(parameter_index),
     value |-> value]

CvEvent(parameter_index, value) ==
    [type |-> "CV_EVENT", parameter_id |-> static_cast_ObjectId(parameter_index),
     value |-> value]

\* Vst2xWrapper::notify_parameter_change_rt.
Vst2xWrapper_notify_parameter_change_rt(parameter_index, value) ==
    /\ param_plugin.kind = "vst2x"
    /\ Len(notified) < MaxNotified
    /\ notified' =
           IF parameter_index > parameter_count
           THEN notified
           ELSE IF maybe_output_cv_value(parameter_index)
                THEN Append(notified, CvEvent(parameter_index, value))
                ELSE Append(notified, ParameterChangeEvent(parameter_index, value))
    /\ UNCHANGED <<param_plugin, param_return>>
    /\ UNCHANGED otherThanParam

\* Lv2Wrapper::_notify_parameter_change_rt.
Lv2Wrapper_notify_parameter_change_rt(parameter_index, value) ==
    /\ param_plugin.kind = "lv2"
    /\ Len(notified) < MaxNotified
    /\ notified' =
           IF parameter_index > parameter_count
           THEN notified
           ELSE Append(notified, ParameterChangeEvent(parameter_index, value))
    /\ UNCHANGED <<param_plugin, param_return>>
    /\ UNCHANGED otherThanParam

ParamNext ==
    \/ \E parameter_id \in ObjectIds : Vst2xWrapper_parameter_value_call(parameter_id)
    \/ \E parameter_id \in ObjectIds : Lv2Wrapper_parameter_value_call(parameter_id)
    \/ \E parameter_index \in NotifyIndices, value \in NotifiedValues :
            Vst2xWrapper_notify_parameter_change_rt(parameter_index, value)
    \/ \E parameter_index \in NotifyIndices, value \in NotifiedValues :
            Lv2Wrapper_notify_parameter_change_rt(parameter_index, value)

MoreInit == LoadInit /\ TimeInit /\ ConfInit /\ ParamInit

Init == Lv2Init /\ MidiInit /\ VstInit /\ MoreInit

\* The same with a plugin that has no worker thread and buffers that hold zeros.
PlainInit ==
    /\ Init
    /\ \A w \in WorkerIds : ~threaded[w] /\ response[w] = [i \in 1..BufLen |-> 0]

(***************************************************************************)
(* Specifications.                                                         *)
(***************************************************************************)
\* The worker in operation: the audio thread and the worker thread, with a plugin
\* that is neither bypassed nor paused and processes silence.
WorkerNext ==
    \/ AudioThread({Silence})
    \/ \E w \in WorkerIds : worker_func(w)

SpecWorker == Init /\ [][WorkerNext]_vars

\* The worker in operation and its shutdown, with at most MaxShutdownSched
\* schedule_work calls. Every thread that can take a step eventually takes one: the
\* threads are scheduled by the operating system, and the plugin's work and run
\* return.
ShutdownAudioThread == AudioThread({Silence}) /\ nsched' <= MaxShutdownSched

ShutdownNext ==
    \/ ShutdownAudioThread
    \/ \E w \in WorkerIds : worker_func(w)
    \/ ControlThread

SpecShutdown ==
    /\ Init
    /\ [][ShutdownNext]_vars
    /\ WF_vars(ShutdownAudioThread)
    /\ \A w \in WorkerIds : WF_vars(worker_func(w))
    /\ WF_vars(ControlThread)

\* The wrapper of a plugin that schedules no work: events, bypass, and the thread
\* that pauses the plugin.
WrapperNext ==
    \/ \E in_buffer \in Samples, out0 \in Samples : process_audio(in_buffer, out0)
    \/ \E plugin_out \in Samples : lilv_instance_run_return(plugin_out)
    \/ lv2_worker_emit_responses_begin
    \/ \E type \in EventTypes, value \in ParamValues, sample_offset \in SampleOffsets :
            process_event(type, value, sample_offset)
    \/ \E b \in BOOLEAN : set_bypassed(b)
    \/ StateThread

SpecWrapper == PlainInit /\ [][WrapperNext]_vars

\* The MIDI dispatcher: connections are made and cleared, frames come in.
SpecMidi == PlainInit /\ [][MidiNext]_vars

\* The scaling of control changes: routes of several ranges, frames of several
\* values.
SpecCc == PlainInit /\ [][CcNext]_vars

\* The outbound side of the dispatcher: output routes are made, events come from
\* the engine.
SpecMidiOut == PlainInit /\ [][MidiOutNext]_vars

\* The making of routes: the three connect calls with valid and invalid arguments.
SpecConnect == PlainInit /\ [][ConnectNext]_vars

\* The VST 2.x wrapper: bypass requests, events and blocks, for a plugin with and
\* without soft bypass.
HostedInit ==
    /\ Lv2Init /\ MidiInit /\ VstReset /\ MoreInit
    /\ \A w \in WorkerIds : ~threaded[w] /\ response[w] = [i \in 1..BufLen |-> 0]
    /\ wrapper_kind \in WrapperKinds
    /\ can_do_soft_bypass \in IF wrapper_kind = "vst2x" THEN BOOLEAN ELSE {FALSE}

Vst2xInit == HostedInit /\ wrapper_kind = "vst2x"

SpecVst == Vst2xInit /\ [][VstNext]_vars

\* A processor that is one of the two wrappers: its events, bypass and blocks.
HostedNext ==
    \/ /\ wrapper_kind = "lv2"
       /\ \E in_buffer \in Samples, out0 \in Samples : process_audio(in_buffer, out0)
    \/ /\ wrapper_kind = "lv2"
       /\ \E plugin_out \in Samples : lilv_instance_run_return(plugin_out)
    \/ /\ wrapper_kind = "lv2"
       /\ lv2_worker_emit_responses_begin
    \/ /\ wrapper_kind = "lv2"
       /\ \E type \in EventTypes, value \in ParamValues, sample_offset \in SampleOffsets :
            process_event(type, value, sample_offset)
    \/ /\ wrapper_kind = "lv2"
       /\ \E b \in BOOLEAN : set_bypassed(b)
    \/ /\ wrapper_kind = "lv2"
       /\ StateThread
    \/ /\ wrapper_kind = "vst2x"
       /\ \E bypass \in BOOLEAN : Vst2xWrapper_set_bypassed(bypass)
    \/ /\ wrapper_kind = "vst2x"
       /\ \E type \in VstEventTypes, value \in BOOLEAN :
            Vst2xWrapper_process_event(type, value)
    \/ /\ wrapper_kind = "vst2x"
       /\ \E in_buffer \in Samples, out0 \in Samples :
            Vst2xWrapper_process_audio_enter(in_buffer, out0)
    \/ /\ wrapper_kind = "vst2x"
       /\ \E plugin_out \in Samples, mixed \in Samples :
            Vst2xWrapper_process_audio_return(plugin_out, mixed)

SpecHosted == HostedInit /\ [][HostedNext]_vars

\* The calls process_audio makes into an LV2 plugin, with and without an end_run
\* in its worker interface: blocks that run the plugin, bypassed blocks and blocks
\* of a paused plugin, with at most MaxShutdownSched schedule_work calls.
EndRunInit == WorkerInit /\ WrapperInit /\ end_run \in BOOLEAN /\ MidiInit /\ VstInit
                /\ MoreInit

EndRunNext ==
    \/ ShutdownAudioThread
    \/ \E w \in WorkerIds : worker_func(w)
    \/ \E b \in BOOLEAN : set_bypassed(b)
    \/ StateThread

SpecEndRun == EndRunInit /\ [][EndRunNext]_vars

\* The loading of a plugin by either wrapper, whatever is found at its path, and the
\* channels of the blocks processed afterwards.
PluginInit ==
    /\ Lv2Init /\ MidiInit /\ VstReset
    /\ \A w \in WorkerIds : ~threaded[w] /\ response[w] = [i \in 1..BufLen |-> 0]
    /\ wrapper_kind \in WrapperKinds
    /\ can_do_soft_bypass = FALSE
    /\ LoadConstructed
    /\ plugin_file \in PluginFiles
    /\ TimeInit
    /\ ConfInit
    /\ ParamInit

SpecLoad == PluginInit /\ [][LoadNext]_vars

\* The transport over a few blocks, started and stopped, and the time info a plugin
\* asks for in them.
SpecTime == PlainInit /\ [][TimeNext]_vars

\* The configurator making tracks, one by one and from tracks sections, in an
\* engine that starts without tracks.
SpecTracks == PlainInit /\ [][TracksNext]_vars

\* The configurator loading the midi section of a file that parses, into a
\* dispatcher without routes.
MidiConfigInit ==
    /\ Lv2Init /\ MidiInit /\ VstInit /\ LoadInit /\ TimeInit /\ ParamInit
    /\ \A w \in WorkerIds : ~threaded[w] /\ response[w] = [i \in 1..BufLen |-> 0]
    /\ ConfConstructed
    /\ midi_config \in MidiConfigs

SpecLoadMidi == MidiConfigInit /\ [][LoadMidiNext]_vars

\* The configurator loading the host_config section of one file after another.
SpecHostConfig == PlainInit /\ [][HostConfigNext]_vars

\* The life of a VST 2.x wrapper: init, whatever is found at the plugin's path, and
\* the destructor, after init or without it.
UnloadInit == PluginInit /\ wrapper_kind = "vst2x"

SpecUnload == UnloadInit /\ [][UnloadNext]_vars

\* The dispatcher with routes in both directions that are made and cleared, frames
\* that come in and keyboard events that go out.
ClearNext ==
    \/ \E midi_input \in MidiInputs, channel \in ConnectChannels :
            connect_kb_to_track(midi_input, "track1", channel)
    \/ \E channel \in ConnectChannels :
            connect_cc_to_parameter(0, "track1", "gain", 7, 0, 2, channel)
    \/ \E midi_output \in ConnectOutputs, channel \in OutChannels :
            connect_track_to_output(midi_output, "track1", channel)
    \/ clear_connections
    \/ \E input \in MidiInputs, data \in Frames : process_midi(input, data)
    \/ \E event \in OutEvents : process(event)

SpecClear == PlainInit /\ [][ClearNext]_vars

\* A wrapper of either kind, initialised with a plugin, asked for parameter values
\* and told of parameter changes by its plugin.
ParamsInit ==
    /\ Lv2Init /\ MidiInit /\ VstInit /\ LoadInit /\ TimeInit /\ ConfInit
    /\ \A w \in WorkerIds : ~threaded[w] /\ response[w] = [i \in 1..BufLen |-> 0]
    /\ ParamConstructed
    /\ param_plugin \in ParamPlugins

SpecParams == ParamsInit /\ [][ParamNext]_vars

(***************************************************************************)
(* Claims.                                                                 *)
(***************************************************************************)
IsPrefix(s, t) == Len(s) <= Len(t) /\ \A i \in 1..Len(s) : s[i] = t[i]

\* The work calls the schedule_work calls of worker w ask for.
Scheduled(w) == [i \in 1..Len(schedLog[w]) |-> Call(Len(schedLog[w][i]), schedLog[w][i])]

\* Whether a ring holds whole records only, each a size header and its payload.
RECURSIVE WholeRecords(_)
WholeRecords(ring) ==
    IF ring = <<>> THEN TRUE
    ELSE IF Len(ring) < HeaderSize THEN FALSE
    ELSE LET n == DecodeSize(zix_ring_peek(ring, HeaderSize))
         IN IF Len(ring) < HeaderSize + n THEN FALSE
            ELSE WholeRecords(SubSeq(ring, HeaderSize + n + 1, Len(ring)))

RECURSIVE NumRecords(_)
NumRecords(ring) ==
    IF Len(ring) < HeaderSize THEN 0
    ELSE LET n == DecodeSize(zix_ring_peek(ring, HeaderSize))
         IN IF Len(ring) < HeaderSize + n THEN 0
            ELSE 1 + NumRecords(SubSeq(ring, HeaderSize + n + 1, Len(ring)))

\* The threads inside the plugin's work (from its call to the post of work_lock).
InWork ==
    {w \in WorkerIds : wpc[w] \in {"work", "respond_data", "unlock"}}
        \cup (IF apc = "sync_work" THEN {"audio"} ELSE {})

\* C1: for a threaded worker, every work_response call carries exactly the bytes of
\* the respond call it answers, and a response whose work returned is delivered by
\* the time two more process_audio calls have returned.
C1_ResponseWithinTwoBlocks ==
    \A w \in WorkerIds : threaded[w] =>
        /\ \A i \in 1..Len(delivLog[w]) :
              i <= Len(respLog[w]) /\ delivLog[w][i] = respLog[w][i]
        /\ \A i \in 1..Len(respBlock[w]) :
              BlocksDone >= respBlock[w][i] + 2 => Len(delivLog[w]) >= i

\* C2: the audio thread is never at zix_sem_wait(&model->work_lock) while another
\* thread holds the work lock.
C2_AudioNeverWaits ==
    apc = "sync_lock" => work_lock > 0

\* C3: at most one thread is inside work, that thread holds the work lock, and when
\* schedule_work of a non-threaded worker has returned, work has been called for
\* every request scheduled on it.
C3_WorkMutualExclusion ==
    /\ Cardinality(InWork) <= 1
    /\ \A t \in InWork : lock_holder = t /\ work_lock = 0
    /\ \A w \in WorkerIds :
          (~threaded[w] /\ ~(aw = w /\ apc \in {"sync_lock", "sync_work"}))
              => workLog[w] = Scheduled(w)

\* C3's case: the worker thread is inside work while the audio thread has called
\* schedule_work of the non-threaded worker.
C3_Witness ==
    /\ apc = "sync_lock"
    /\ \E w \in WorkerIds : wpc[w] \in {"work", "respond_data"}

\* C4: while no ring has overflowed, work is called for the requests in the order of
\* the schedule_work calls and work_response for the responses in the order of the
\* respond calls, each once and none skipped.
C4_FifoOnce ==
    ~overflowed =>
        \A w \in WorkerIds :
            /\ IsPrefix(workLog[w], Scheduled(w))
            /\ IsPrefix(delivLog[w], respLog[w])

\* C5: a schedule_work call that finds no room drops its record whole: whenever no
\* schedule_work call is under way and the worker thread waits on its semaphore, the
\* request ring holds whole records only and the semaphore counts them.
C5_OverflowDropsWhole ==
    \A w \in WorkerIds :
        (threaded[w] /\ apc \notin {"sched_data", "sched_post"} /\ wpc[w] = "sem_wait")
            => WholeRecords(requests[w]) /\ sem[w] = NumRecords(requests[w])

\* C6: once model->exit is set and lv2_worker_finish has posted the semaphore of a
\* threaded worker, the worker thread returns and the join in lv2_worker_finish
\* returns.
C6_FinishTerminates ==
    \A w \in WorkerIds : (fin[w] = "posted") ~> (fin[w] = "joined")

\* C6's case: lv2_worker_finish has returned for a threaded worker whose request
\* ring still holds a request.
C6_Witness ==
    \E w \in WorkerIds :
        threaded[w] /\ fin[w] = "joined" /\ NumRecords(requests[w]) > 0

\* C7: a process_audio call entered with play_state LV2_PAUSE_REQUESTED, bypassed
\* or not, sets play_state to LV2_PAUSED and posts model->paused once.
C7_PauseAcknowledged ==
    [][(blocks' = blocks + 1 /\ play_state = "LV2_PAUSE_REQUESTED")
          => (play_state' = "LV2_PAUSED" /\ paused' = paused + 1)]_vars

\* C8: a process_audio call entered with play_state LV2_PAUSED leaves the incoming
\* event queue empty.
C8_PausedDropsEvents ==
    [][(blocks' = blocks + 1 /\ play_state = "LV2_PAUSED")
          => incoming_event_queue' = <<>>]_vars

\* C9: a process_audio call entered with play_state LV2_PAUSED leaves out_buffer
\* all zero.
C9_PausedSilence ==
    [][(blocks' = blocks + 1 /\ play_state = "LV2_PAUSED")
          => out_buffer' = Silence]_vars

\* C10: the events of a frame are posted for the connections of the OMNI list
\* first and for those of the channel's list after them, and within a list in the
\* order the connections were registered.
C10_OmniFirstInOrder ==
    \A i \in 1..Len(posted) : \A j \in (i + 1)..Len(posted) :
        /\ posted[i].slot = OMNI \/ posted[j].slot # OMNI
        /\ posted[i].slot = posted[j].slot => posted[i].reg < posted[j].reg

\* C10's case: a frame has posted events for a connection of the OMNI list and for
\* one of its channel's list, and for two connections of one list.
C10_Witness ==
    /\ \E i, j \in 1..Len(posted) : posted[i].slot = OMNI /\ posted[j].slot # OMNI
    /\ \E i, j \in 1..Len(posted) : i # j /\ posted[i].slot = posted[j].slot

\* The connections registered for a frame's port under one slot of the route
\* tables: _cc_routes[input][controller][slot], _kb_routes_in[input][slot].
CcConnections(input, controller, slot) ==
    IF input \in DOMAIN cc_routes THEN CcSlot(cc_routes[input], controller)[slot] ELSE <<>>

KbConnections(input, slot) ==
    IF input \in DOMAIN kb_routes_in THEN kb_routes_in[input][slot] ELSE <<>>

\* The connections that match a frame: those under (port, OMNI) followed by those
\* under (port, channel of the frame).
Matching(input, data) ==
    IF decode_message_type(data) = "CONTROL_CHANGE"
    THEN CcConnections(input, data[2], OMNI)
             \o CcConnections(input, data[2], decode_channel(data))
    ELSE KbConnections(input, OMNI) \o KbConnections(input, decode_channel(data))

\* How many entries of a sequence of connections name the target.
CountTarget(list, target) == Cardinality({i \in 1..Len(list) : list[i].target = target})

\* How many of the posted events are for the target.
CountPosted(target) ==
    Cardinality({i \in 1..Len(posted) : posted[i].event.target = target})

Targets == {processor_id_from_name(name).id : name \in ProcessorNames}

\* C11: a control change, note on or note off frame on port p and channel c posts
\* one event per matching connection: as many as there are connections under
\* (p, OMNI) plus under (p, c), and a target connected under both gets one event
\* for each of its connections.
C11_OneEventPerConnection ==
    last_frame # <<>> /\ decode_message_type(last_frame[2])
                            \in {"CONTROL_CHANGE", "NOTE_ON", "NOTE_OFF"} =>
        LET input == last_frame[1]
            data == last_frame[2]
            c == decode_channel(data)
        IN /\ Len(posted) =
                IF decode_message_type(data) = "CONTROL_CHANGE"
                THEN Len(CcConnections(input, data[2], OMNI))
                         + Len(CcConnections(input, data[2], c))
                ELSE Len(KbConnections(input, OMNI)) + Len(KbConnections(input, c))
           /\ \A target \in Targets :
                CountPosted(target) = CountTarget(Matching(input, data), target)

\* C11's case: a frame has posted two events for one target, one for its
\* connection under OMNI and one for its connection under the frame's channel.
C11_Witness ==
    /\ last_frame # <<>>
    /\ \E i, j \in 1..Len(posted) :
        /\ posted[i].slot = OMNI
        /\ posted[j].slot = decode_channel(last_frame[2])
        /\ posted[i].event.target = posted[j].event.target

\* C12: a note on frame that matches a keyboard route yields a keyboard event
\* whose note, velocity (value / 127) and channel are the decoded fields of the
\* frame.
C12_NoteOnCarriesDecodedFields ==
    last_frame # <<>> /\ decode_message_type(last_frame[2]) = "NOTE_ON" =>
        LET msg == decode_note_on(last_frame[2])
        IN \A i \in 1..Len(posted) :
            LET e == posted[i].event
            IN /\ e.type = "KEYBOARD_EVENT"
               /\ e.note = msg.note
               /\ e.velocity127 = msg.velocity
               /\ "channel" \in DOMAIN e
               /\ e.channel = msg.channel

\* C14: a note on, note off or polyphonic key pressure frame that matches a
\* keyboard route is forwarded: an event is posted for each matching connection.
C14_KeyboardFramesForwarded ==
    last_frame # <<>> /\ decode_message_type(last_frame[2])
                            \in {"NOTE_ON", "NOTE_OFF", "POLY_KEY_PRESSURE"} =>
        Len(posted) = Len(Matching(last_frame[1], last_frame[2]))

OutRoutes(processor_id) == MapEntry(kb_routes_out, processor_id, <<>>)

\* C13: for a keyboard event whose processor has the output routes r1..rn, made by
\* connect_track_to_output(port_i, track, channel_i), process calls send_midi n
\* times, the i-th call on port_i with the bytes that encode channel_i and the
\* event's note and velocity; without a route nothing is sent.
C13_SentOnRegisteredPorts ==
    last_event # <<>> /\ last_event.type = "KEYBOARD_EVENT"
                      /\ last_event.subtype \in EncodedSubtypes =>
        LET routes == OutRoutes(last_event.processor_id)
        IN /\ Len(sent) = Len(routes)
           /\ \A i \in 1..Len(sent) :
                /\ sent[i].output = routes[i].midi_output
                /\ sent[i].data = EncodeFor(last_event, routes[i])

\* The lists of the three route tables, each under the keys that lead to it; a
\* key without an entry has the empty list.
RouteKeys ==
    {<<"cc", input, cc, ch>> : input \in MidiInputs, cc \in CcNumbers, ch \in ChannelSlots}
        \cup {<<"kb", input, 0, ch>> : input \in MidiInputs, ch \in ChannelSlots}
        \cup {<<"out", id, 0, 0>> : id \in Targets}

RouteList(cc, kb, out, key) ==
    CASE key[1] = "cc" -> IF key[2] \in DOMAIN cc THEN cc[key[2]][key[3]][key[4]] ELSE <<>>
      [] key[1] = "kb" -> IF key[2] \in DOMAIN kb THEN kb[key[2]][key[4]] ELSE <<>>
      [] key[1] = "out" -> IF key[2] \in DOMAIN out THEN out[key[2]] ELSE <<>>

ErrorCodes ==
    {"INVALID_MIDI_INPUT", "INVALID_MIDI_OUTPUT", "INVAlID_CHANNEL", "INVALID_CHAIN_NAME",
     "INVALID_PROCESSOR", "INVALID_PARAMETER"}

Called(op) == \E i \in 1..Len(vst_calls) : vst_calls[i].op = op

\* The VST 2.x wrapper is bypassed by the host: the plugin has no soft bypass and
\* the bypass manager says not to process.
Vst2xHostBypassed == can_do_soft_bypass = FALSE /\ BypassManager_should_process = FALSE

C18_BypassAtBlockBoundary ==
    [][/\ Len(host_control') > Len(host_control) =>
            UNCHANGED <<can_do_soft_bypass, vst_bypassed, ramp_count, vst_midi_events_fifo>>
       /\ vst_bypassed' # vst_bypassed =>
            /\ vpc = "idle" /\ vpc' = "idle"
            /\ host_control # <<>>
            /\ host_control' = Tail(host_control)
            /\ vst_bypassed' = Head(host_control)
            /\ vst_calls'[1].op = "set_bypass"]_vars

\* C18's case: a request for the other bypass has been posted while the audio
\* thread is in a block, and the manager still holds the bypass it had.
C18_Witness ==
    /\ vpc = "block"
    /\ host_control # <<>>
    /\ Head(host_control) # vst_bypassed

\* C19: a SET_BYPASS event sets the wrapper's bypass manager to its value, and is
\* passed to the plugin with effSetBypass and the same value if and only if the
\* plugin does soft bypass; for such a plugin every process_audio passes the events
\* and calls processReplacing, and uses neither the bypass branch nor the
\* crossfade.
C19_SoftBypassDelegated ==
    [][/\ (host_control # <<>> /\ host_control' = Tail(host_control)) =>
            /\ vst_bypassed' = Head(host_control)
            /\ vst_calls'[1].op = "set_bypass"
            /\ vst_calls'[1].arg = <<Head(host_control)>>
            /\ IF can_do_soft_bypass
               THEN /\ Len(vst_calls') = 2
                    /\ vst_calls'[2].op = "effSetBypass"
                    /\ vst_calls'[2].arg = <<Head(host_control)>>
               ELSE Len(vst_calls') = 1
       /\ (can_do_soft_bypass /\ vpc = "idle" /\ vpc' = "block") =>
            /\ Len(vst_calls') = 1
            /\ vst_calls'[1].op = "effProcessEvents"
       /\ (can_do_soft_bypass /\ vpc = "block" /\ vpc' = "idle") =>
            /\ Len(vst_calls') = 2
            /\ vst_calls'[1].op = "effProcessEvents"
            /\ vst_calls'[2].op = "processReplacing"]_vars

\* C19's case: a plugin with soft bypass has been run by a block, without a
\* crossfade, after a SET_BYPASS event has set the bypass manager to bypass and
\* started its ramp.
C19_Witness ==
    /\ can_do_soft_bypass
    /\ vst_bypassed
    /\ BypassManager_should_ramp
    /\ vpc = "idle"
    /\ Called("processReplacing")
    /\ ~Called("crossfade_output")

\* C20: in a block in which the VST 2.x plugin is run, the keyboard events that
\* process_event pushed since the block before are handed to the plugin in one
\* effProcessEvents call, in the order they were pushed, before processReplacing is
\* called; and no event is handed over twice, in that block or a later one.
C20_EventsHandedOverOnce ==
    [][/\ (~Vst2xHostBypassed /\ vpc = "idle" /\ vpc' = "block") =>
            /\ Len(vst_calls') = 1
            /\ vst_calls'[1].op = "effProcessEvents"
            /\ vst_calls'[1].arg = vst_accepted
            /\ vst_delivered' = vst_delivered \o vst_accepted
       /\ (vpc = "block" /\ ~Called("bypass_process") /\ vpc' = "idle") =>
            /\ vst_calls'[1] = vst_calls[1]
            /\ vst_calls'[2].op = "processReplacing"
            /\ \A i \in 2..Len(vst_calls') : vst_calls'[i].op # "effProcessEvents"
            /\ vst_delivered' = vst_delivered
       /\ \A i, j \in 1..Len(vst_delivered') :
            i # j => vst_delivered'[i].id # vst_delivered'[j].id]_vars

\* C20's case: a block has run the plugin after handing it two events in one call,
\* and an earlier block had handed it another.
C20_Witness ==
    /\ vpc = "idle"
    /\ Called("processReplacing")
    /\ Len(vst_calls[1].arg) = 2
    /\ Len(vst_delivered) > 2


\* The ids of the events written to the plugin's event buffer, in order.
WrittenIds(events) == [i \in 1..Len(events) |-> events[i].data.id]

\* A step that is a block in which the LV2 plugin is run.
Lv2RunBlock == blocks' = blocks + 1 /\ ~bypassed /\ play_state # "LV2_PAUSED"

\* C21 as the specification states it: every keyboard event that process_event has
\* accepted has been written to the plugin's event buffer once the next block that
\* runs the plugin has delivered its inputs.
C21_AcceptedWrittenInNextRunBlock ==
    [][Lv2RunBlock =>
            \A id \in accepted_events :
                \E i \in 1..Len(plugin_events') : plugin_events'[i].data.id = id]_vars

\* C21: the keyboard events process_event accepted that no bypassed block has
\* flushed since are written to the plugin's event buffer by the next block that
\* runs the plugin: the block appends one entry for each queued event, in push
\* order, at the frame that is the event's sample_offset, typed as a MIDI event and
\* holding the event's MIDI bytes, and leaves the queue empty. At any time an
\* accepted event that was not flushed is either still queued or written exactly
\* once, and the written events are in the order they were pushed.
C21_QueuedWrittenInNextRunBlock ==
    [][/\ Lv2RunBlock =>
            /\ Len(plugin_events') = Len(plugin_events) + Len(incoming_event_queue)
            /\ SubSeq(plugin_events', 1, Len(plugin_events)) = plugin_events
            /\ \A i \in 1..Len(incoming_event_queue) :
                 LET written == plugin_events'[Len(plugin_events) + i]
                     event == incoming_event_queue[i]
                 IN /\ written.data.id = event.id
                    /\ written.data.message = event.type
                    /\ written.frames = event.sample_offset
                    /\ written.type = "midi_MidiEvent"
            /\ incoming_event_queue' = <<>>
       /\ \A id \in accepted_events' \ flushed_events' :
            Cardinality({i \in 1..Len(plugin_events') : plugin_events'[i].data.id = id})
              + Cardinality({i \in 1..Len(incoming_event_queue') :
                                incoming_event_queue'[i].id = id}) = 1
       /\ \A i, j \in 1..Len(plugin_events') :
            i < j => plugin_events'[i].data.id < plugin_events'[j].data.id]_vars

\* C21's case: a block is running the plugin after writing two queued events, at
\* different frames, to its event buffer, and an earlier bypassed block had flushed
\* another accepted event.
C21_Witness ==
    /\ apc = "run"
    /\ incoming_event_queue = <<>>
    /\ Len(plugin_events) = 2
    /\ plugin_events[1].frames # plugin_events[2].frames
    /\ WrittenIds(plugin_events) = <<2, 3>>
    /\ flushed_events = {1}


\* The places of a call in the calls made into the plugin.
CallsOf(calls, op) == {i \in 1..Len(calls) : calls[i] = op}

\* C22: when a block that runs the LV2 plugin returns, process_audio has called
\* end_run exactly once if the worker interface has one, and not at all if it has
\* none; the call comes after run and after every work_response call of the block,
\* is the last call made into the plugin, and is made only when both
\* emit_responses calls have returned. A block that does not run the plugin
\* (bypassed, or PAUSED) makes no call into the plugin, end_run included.
C22_EndRunLastInRunBlock ==
    [][/\ (apc # "idle" /\ apc' = "idle") =>
            Cardinality(CallsOf(plugin_calls', "end_run")) = IF end_run THEN 1 ELSE 0
       /\ \A i \in CallsOf(plugin_calls', "end_run") :
            /\ end_run
            /\ apc' = "idle"
            /\ i = Len(plugin_calls')
            /\ \E j \in CallsOf(plugin_calls', "run") : j < i
            /\ \A j \in CallsOf(plugin_calls', "work_response") : j < i
            /\ CallsOf(plugin_calls', "end_run") = {i}
       /\ (blocks' = blocks + 1 /\ (bypassed \/ play_state = "LV2_PAUSED")) =>
            /\ plugin_calls' = <<>>
            /\ apc' = "idle"]_vars

\* C22's case: a block has run a plugin that has an end_run, has passed it a
\* response, and has returned.
C22_Witness ==
    /\ end_run
    /\ apc = "idle"
    /\ plugin_calls = <<"connect_port", "run", "work_response", "end_run">>


C23_SlotsMappedBelowMax ==
    (mapped /\ ~double_mono_input) =>
        \A i \in Slots :
            /\ i < current_input_channels => process_inputs[i] = InChannel(i)
            /\ (current_input_channels <= i /\ i < max_input_channels) =>
                    process_inputs[i] = DummyInput
            /\ i >= max_input_channels => process_inputs[i] = Unset
            /\ i < current_output_channels => process_outputs[i] = OutChannel(i)
            /\ (current_output_channels <= i /\ i < max_output_channels) =>
                    process_outputs[i] = DummyOutput
            /\ i >= max_output_channels => process_outputs[i] = Unset

\* C24 as the specification states it: in a block processed by a VST 2.x wrapper
\* with one current input channel and a plugin of two inputs, both input slots are
\* input channel 0.
C24_MonoInputDoubled ==
    (mapped /\ wrapper_kind = "vst2x"
        /\ current_input_channels = 1 /\ max_input_channels = 2) =>
        process_inputs[0] = InChannel(0) /\ process_inputs[1] = InChannel(0)

\* C24: after any sequence of set_input_channels and set_output_channels calls, in
\* a block processed by a VST 2.x wrapper with one current input channel and a
\* plugin of two inputs, both input slots are input channel 0 if the plugin refused
\* the speaker arrangement of the last of those calls; if it took the arrangement,
\* slot 0 is input channel 0 and slot 1 is the silent buffer.
C24_MonoInputDoubledUnlessArranged ==
    (mapped /\ wrapper_kind = "vst2x"
        /\ current_input_channels = 1 /\ max_input_channels = 2) =>
        /\ process_inputs[0] = InChannel(0)
        /\ process_inputs[1] = IF speaker_arr_status = FALSE THEN InChannel(0)
                               ELSE DummyInput
        /\ double_mono_input = (speaker_arr_status = FALSE)

\* C24's case: a block has been processed in double mono mode, after the input
\* channels were set to one and the output channels were then set as well.
C24_Witness ==
    /\ mapped
    /\ wrapper_kind = "vst2x"
    /\ current_input_channels = 1
    /\ max_input_channels = 2
    /\ current_output_channels = 1
    /\ max_output_channels = 2
    /\ double_mono_input
    /\ process_inputs[1] = InChannel(0)


\* Whether init has made a call.
InitCalled(op) == \E i \in 1..Len(load_calls) : load_calls[i] = op

\* C26: Vst2xWrapper::init returns the code of the first step that fails, in the
\* order library, entry point, magic number, parameters, and OK if none does; it
\* goes no further than the failing step (the plugin is not loaded from a library
\* that did not open, and is not opened without the magic number); and after a
\* return other than OK the wrapper holds no plugin handle and the plugin's user
\* field was not set to the wrapper.
C26_InitFailsFast ==
    (wrapper_kind = "vst2x" /\ init_return # "none") =>
        /\ init_return =
              IF ~plugin_file.library THEN "SHARED_LIBRARY_OPENING_ERROR"
              ELSE IF ~plugin_file.entry_point THEN "PLUGIN_ENTRY_POINT_NOT_FOUND"
              ELSE IF ~plugin_file.magic THEN "PLUGIN_LOAD_ERROR"
              ELSE IF ~plugin_file.parameters THEN "PARAMETER_ERROR"
              ELSE "OK"
        /\ InitCalled("load_plugin") <=> plugin_file.library
        /\ InitCalled("effOpen") <=>
              (plugin_file.library /\ plugin_file.entry_point /\ plugin_file.magic)
        /\ InitCalled("register_parameters") <=> InitCalled("effOpen")
        /\ init_return # "OK" => plugin_handle = "null" /\ plugin_user = "null"
        /\ init_return = "OK" => plugin_handle = "loaded" /\ plugin_user = "wrapper"

\* C26's case: init has returned PARAMETER_ERROR for a plugin it had loaded and
\* opened, and has closed it.
C26_Witness ==
    /\ wrapper_kind = "vst2x"
    /\ init_return = "PARAMETER_ERROR"
    /\ InitCalled("effOpen")
    /\ InitCalled("effClose")
    /\ plugin_handle = "null"
    /\ library_handle = "closed"


\* C27: the flags of the time info the VST 2.x wrapper returns hold the
\* transport-playing flag exactly when the transport is playing, always the time
\* capability flags of the host (nanoseconds, ppq position, tempo, bars and time
\* signature valid), and the transport-changed flag exactly when the play state
\* changed in this block.
C27_TimeInfoFlags ==
    [][time_info' # time_info =>
            /\ kVstTransportPlaying \subseteq time_info'.flags <=> transport_playing'
            /\ SUSHI_HOST_TIME_CAPABILITIES \subseteq time_info'.flags
            /\ kVstTransportChanged \subseteq time_info'.flags
                    <=> transport_state_change' # "UNCHANGED"]_vars



\* C28: when loading a track fails (load_tracks or _make_track returns a status
\* other than OK), the engine is as it was before the failing track was started:
\* the same tracks, audio connections and processors, nothing of the failed track
\* left in it.
C28_FailedTrackLeavesEngineAsBefore ==
    [][(last_call' # last_call /\ last_call'.status # "OK")
            => engine' = last_call'.before]_vars



\* Whether the engine has a track of a name, and the names of the plugins on its
\* tracks.
TrackExists(eng, name) == \E i \in 1..Len(eng.tracks) : eng.tracks[i].name = name
PluginNames(eng) ==
    UNION {{eng.tracks[i].plugins[j] : j \in 1..Len(eng.tracks[i].plugins)} :
                i \in 1..Len(eng.tracks)}

\* Whether a connection of a track definition is one the engine rejects: a channel
\* or a bus the engine or the track does not have.
ConnectionRejected(track_def, con) ==
    LET track_channels == IF track_def.mode = "mono" THEN 1 ELSE 2
    IN IF con.by = "engine_bus"
       THEN 2 * con.engine + 1 >= EngineChannels \/ 2 * con.track + 1 >= track_channels
       ELSE con.engine >= EngineChannels \/ con.track >= track_channels

\* Whether a plugin of a definition cannot be made (the uid of an internal plugin
\* is unknown, or nothing loads from the path of another), and whether its name
\* is used by the time it is added: by a plugin in the engine or by an earlier one
\* of the same track.
PluginUnknown(def) ==
    IF def.type = "internal" THEN def.uid \notin KnownUids ELSE def.path \notin LoadablePaths
PluginNameUsed(eng, track_def, i) ==
    \/ track_def.plugins[i].name \in PluginNames(eng) \cup {track_def.name}
    \/ \E j \in 1..(i - 1) : track_def.plugins[j].name = track_def.plugins[i].name

\* The status the statement gives a call of _make_track, from the engine as it is
\* when the call starts.
ExpectedMakeTrackStatus(eng, track_def) ==
    LET bad == {i \in 1..Len(track_def.plugins) :
                    PluginUnknown(track_def.plugins[i]) \/ PluginNameUsed(eng, track_def, i)}
        first == CHOOSE i \in bad : \A j \in bad : i <= j
    IN IF TrackExists(eng, track_def.name) THEN "INVALID_TRACK_NAME"
       ELSE IF \/ \E i \in 1..Len(track_def.inputs) :
                        ConnectionRejected(track_def, track_def.inputs[i])
               \/ \E i \in 1..Len(track_def.outputs) :
                        ConnectionRejected(track_def, track_def.outputs[i])
       THEN "INVALID_CONFIGURATION"
       ELSE IF bad = {} THEN "OK"
       ELSE IF PluginUnknown(track_def.plugins[first]) THEN "INVALID_PLUGIN_PATH"
       ELSE "INVALID_PLUGIN_NAME"

InputRouteRegistered(table, con) ==
    /\ con.port \in DOMAIN table
    /\ \E i \in 1..Len(table[con.port][get_midi_channel(con.channel)]) :
            table[con.port][get_midi_channel(con.channel)][i].target
                = processor_id_from_name(con.track).id

\* The same for an output route of a track and for a control change route.
OutputRouteRegistered(con) ==
    /\ processor_id_from_name(con.track).id \in DOMAIN kb_routes_out
    /\ \E i \in 1..Len(kb_routes_out[processor_id_from_name(con.track).id]) :
            LET route == kb_routes_out[processor_id_from_name(con.track).id][i]
            IN route.channel = get_midi_channel(con.channel) /\ route.midi_output = con.port
CcRouteRegistered(cc_map) ==
    /\ cc_map.port \in DOMAIN cc_routes
    /\ \E i \in 1..Len(cc_routes[cc_map.port][cc_map.cc_number][get_midi_channel(cc_map.channel)]) :
            LET route == cc_routes[cc_map.port][cc_map.cc_number][get_midi_channel(cc_map.channel)][i]
            IN /\ route.target = processor_id_from_name(cc_map.plugin_name).id
               /\ route.min_range = cc_map.min_range
               /\ route.max_range = cc_map.max_range

\* After load_midi has returned OK, the entries of track_connections,
\* track_out_connections and cc_mappings are routes of the dispatcher.
HandledEntriesRegistered ==
    load_midi_return = "OK" =>
        /\ \A i \in 1..Len(midi_config.track_connections) :
                LET con == midi_config.track_connections[i]
                IN InputRouteRegistered(IF con.raw_midi THEN raw_routes_in ELSE kb_routes_in,
                                        con)
        /\ \A i \in 1..Len(midi_config.track_out_connections) :
                OutputRouteRegistered(midi_config.track_out_connections[i])
        /\ \A i \in 1..Len(midi_config.cc_mappings) :
                CcRouteRegistered(midi_config.cc_mappings[i])

\* C30: after load_midi has returned OK, every entry of every subsection of the
\* midi section (track_connections, track_out_connections, cc_mappings,
\* program_change_mappings, raw_midi_connections) is a route of the dispatcher, in
\* the keyboard, control change, raw MIDI or program change table.
C30_EveryMidiEntryRegistered ==
    load_midi_return = "OK" =>
        /\ HandledEntriesRegistered
        /\ \A i \in 1..Len(midi_config.program_change_mappings) :
                InputRouteRegistered(pc_routes, midi_config.program_change_mappings[i])
        /\ \A i \in 1..Len(midi_config.raw_midi_connections) :
                InputRouteRegistered(raw_routes_in, midi_config.raw_midi_connections[i])



\* C31: a track made from a definition of the configuration has the channels of
\* its mode, as inputs and as outputs: 1 when mono, 2 when stereo, and two for each
\* of its buses when multibus.
C31_TrackChannelsOfMode ==
    [][(last_call' # last_call /\ last_call'.op = "_make_track" /\ last_call'.status = "OK")
            => EngineTrackChannels(engine', last_call'.tracks[1].name)
                    = IF last_call'.tracks[1].mode = "mono" THEN 1
                      ELSE IF last_call'.tracks[1].mode = "stereo" THEN 2
                      ELSE 2 * last_call'.tracks[1].busses]_vars



\* The names of the plugins of a track definition, in the order they are listed.
ListedPlugins(track_def) == [j \in 1..Len(track_def.plugins) |-> track_def.plugins[j].name]

\* C32: after load_tracks has returned OK, the engine holds the tracks of the
\* section in the order they are listed, after the tracks it held before, and the
\* chain of each holds the plugins listed for it and no other, in the order they
\* are listed.
C32_TracksAndPluginsInListedOrder ==
    [][(last_call' # last_call /\ last_call'.op = "load_tracks" /\ last_call'.status = "OK")
            => /\ Len(engine'.tracks) = Len(engine.tracks) + Len(last_call'.tracks)
               /\ \A i \in 1..Len(engine.tracks) : engine'.tracks[i] = engine.tracks[i]
               /\ \A i \in 1..Len(last_call'.tracks) :
                    /\ engine'.tracks[Len(engine.tracks) + i].name = last_call'.tracks[i].name
                    /\ engine'.tracks[Len(engine.tracks) + i].plugins
                            = ListedPlugins(last_call'.tracks[i])]_vars

\* C32's case: load_tracks has returned OK for a section of two tracks, the second
\* of them with two plugins.
C32_Witness ==
    /\ last_call.op = "load_tracks"
    /\ last_call.status = "OK"
    /\ Len(last_call.tracks) = 2
    /\ Len(last_call.tracks[2].plugins) = 2
    /\ Len(engine.tracks) = 2
    /\ engine.tracks[2].plugins = <<"synth", "comp">>



\* C33: when load_host_config returns OK the engine's sample rate is the
\* samplerate of the file's host_config section, and OK is what it returns for a
\* file that opens, parses and follows the schema; when it returns another status
\* the sample rate is what it was before the call.
C33_HostConfigSampleRate ==
    [][host_config' # host_config =>
            /\ host_config'.status = "OK" <=>
                    (host_config'.file.good /\ host_config'.file.parses
                        /\ host_config'.file.follows_schema)
            /\ host_config'.status = "OK" => sample_rate' = host_config'.file.samplerate
            /\ host_config'.status # "OK" => sample_rate' = sample_rate]_vars

\* C33's case: a file that does not follow the schema was refused after another
\* file had set the sample rate, which the engine still has.
C33_Witness ==
    /\ host_config.status = "INVALID_CONFIGURATION"
    /\ host_config.file.samplerate = 96000
    /\ sample_rate = 48000



\* C34: however the respond calls of the worker thread fall between the steps of
\* emit_responses on the audio thread, every work_response call is given the size
\* and the bytes of one respond call, emit_responses reads the payload of every
\* header it has read (the payload is in the ring by then), and its count of the
\* bytes left comes down to zero, never past it, so that the loop ends. Stated for
\* the runs in which every ring write found room.
C34_WholeResponsesUnderInterleaving ==
    ~overflowed =>
        \A w \in WorkerIds :
            /\ \A i \in 1..Len(delivLog[w]) :
                    \E j \in 1..Len(respLog[w]) : delivLog[w][i] = respLog[w][j]
            /\ (apc = "emit_data" /\ aw = w) => zix_ring_can_read(responses[w], esize)
            /\ read_space >= 0
            /\ apc # "emit_spin"



\* C35: once the audio thread has set the play state to PAUSED and signalled the
\* paused semaphore, it makes no call into the plugin (port connection, run,
\* work_response, end_run) while the play state is PAUSED, and the thread woken by
\* the signal is never at its restore while the audio thread is inside the block
\* that calls the plugin.
C35_NoPluginCallWhilePaused ==
    [][/\ (plugin_calls' # plugin_calls /\ plugin_calls' # <<>>)
            => play_state' # "LV2_PAUSED"
       /\ restoring' = "restoring" => apc' = "idle"]_vars



\* Whether a sequence of calls can be matched one to one with earlier calls of a
\* second sequence: no call occurs more often in the first than in the second.
MatchedOneToOne(calls, earlier) ==
    \A i \in 1..Len(calls) :
        Cardinality({j \in 1..Len(calls) : calls[j] = calls[i]})
            <= Cardinality({j \in 1..Len(earlier) : earlier[j] = calls[i]})

\* C36: every work call of the worker thread has the size and the bytes of a
\* schedule_work call made before it, each schedule_work call answering for one
\* work call at most; and when the thread reads the size of a request, and then its
\* bytes, the request ring holds them.
C36_WorkOnlyForScheduledRequests ==
    \A w \in WorkerIds : threaded[w] =>
        /\ MatchedOneToOne(workLog[w], Scheduled(w))
        /\ wpc[w] = "read_size" =>
              /\ zix_ring_can_read(requests[w], HeaderSize)
              /\ zix_ring_can_read(requests[w],
                    HeaderSize + DecodeSize(zix_ring_peek(requests[w], HeaderSize)))
        /\ wpc[w] = "read_body" => zix_ring_can_read(requests[w], wsize[w])



\* How often init and the destructor have made a call.
TimesCalled(op) == Cardinality({i \in 1..Len(load_calls) : load_calls[i] = op})

\* C37: over init and the destruction of a VST 2.x wrapper, close_library_handle is
\* called at most once when a library handle was obtained, and not at all when
\* none was; the same for effClose and the plugin that was loaded.
C37_ClosedAtMostOnce ==
    /\ TimesCalled("close_library_handle")
            <= (IF InitCalled("get_library_handle_for_plugin") /\ plugin_file.library
                THEN 1 ELSE 0)
    /\ TimesCalled("effClose")
            <= (IF InitCalled("load_plugin") /\ plugin_file.entry_point THEN 1 ELSE 0)



\* The dispatcher holds no route: none for control changes, none for keyboard
\* frames, none to an output.
NoConnections == cc_routes = <<>> /\ kb_routes_in = <<>> /\ kb_routes_out = <<>>

\* C38: clear_connections leaves the dispatcher without a connection of any kind,
\* and while it has none (until a connection is made) a frame that comes in posts
\* no event and a keyboard event that goes out is sent to no output.
C38_ClearRemovesEveryConnection ==
    [][/\ clear_connections => NoConnections'
       /\ (NoConnections /\ NoConnections') => (posted' = <<>> /\ sent' = <<>>)]_vars



\* C39: parameter_value returns OK exactly for the ids of registered parameters,
\* and for every other id, those that are negative as an int and those of ports
\* that are not control ports among them, it returns PARAMETER_NOT_FOUND and
\* reads nothing from the plugin or from a port.
C39_ParameterValueOnlyOfRegistered ==
    param_return.called =>
        IF /\ param_return.id.hi = 0
           /\ param_return.id.lo \in RegisteredParameters
        THEN param_return.code = "OK"
        ELSE param_return.code = "PARAMETER_NOT_FOUND" /\ param_return.read = NoRead

\* An event put out tells of a parameter the wrapper has.
ValidParameterIndex(id) ==
    id.hi = 0 /\ id.lo < parameter_count

\* C40: every event notify_parameter_change_rt puts out is for an index from 0 to
\* parameter_count() - 1; for any other index, parameter_count() itself among
\* them, nothing is put out.
C40_NotifiesOnlyValidIndices ==
    \A i \in 1..Len(notified) : ValidParameterIndex(notified[i].parameter_id)

============================================================================
